---- MODULE Spec2Model ----
(***************************************************************************)
(* Field extraction by elimination for Cameroonian national ID cards:      *)
(* the three extractor classes CNIExtractor18F (2018 front),               *)
(* CNIExtractor18B (2018 back) and CNIExtractor25B (2025 back).            *)
(*                                                                         *)
(* Representation.                                                         *)
(*   - A text is a sequence of characters; a character is a one-character  *)
(*     string, or the name "U+XXXX" of a non-ASCII code point.             *)
(*   - A confidence score is an integer number of hundredths (0..100).     *)
(*   - A quotient the code computes in floating point (the mean score, a   *)
(*     similarity, the confidence) is the exact fraction <<num, den>>.     *)
(*   - A polygon is a sequence of points <<x, y>>.                         *)
(*   - Python's None is the value None below, which is no text.            *)
(***************************************************************************)
EXTENDS Integers, Sequences, FiniteSets, TLC

None == <<"<None>">>

\* ------------------------------------------------------------------ text

LowerSeq == <<"a","b","c","d","e","f","g","h","i","j","k","l","m",
              "n","o","p","q","r","s","t","u","v","w","x","y","z">>
UpperSeq == <<"A","B","C","D","E","F","G","H","I","J","K","L","M",
              "N","O","P","Q","R","S","T","U","V","W","X","Y","Z">>
Digits == {"0","1","2","3","4","5","6","7","8","9"}
UpperSet == {UpperSeq[i] : i \in 1..26}
LowerSet == {LowerSeq[i] : i \in 1..26}
\* the code points above 127 of the alphabet (ord(c) > 127)
NonAscii == {"U+9E21", "U+5DDD"}

Range(s) == {s[i] : i \in DOMAIN s}

RECURSIVE SumFrom(_, _)
SumFrom(s, i) == IF i > Len(s) THEN 0 ELSE s[i] + SumFrom(s, i + 1)
SumSeq(s) == SumFrom(s, 1)

SetMax(S) == CHOOSE x \in S : \A y \in S : y <= x
SetMin(S) == CHOOSE x \in S : \A y \in S : x <= y
Min2(a, b) == IF a <= b THEN a ELSE b

\* str.upper(), one character
UpperChar(c) ==
  IF c \in LowerSet THEN UpperSeq[CHOOSE i \in 1..26 : LowerSeq[i] = c] ELSE c
\* str.upper()
Upper(t) == [i \in DOMAIN t |-> UpperChar(t[i])]

\* str.strip(): leading and trailing whitespace removed
Strip(t) ==
  LET keep == {i \in DOMAIN t : t[i] # " "}
  IN IF keep = {} THEN <<>> ELSE SubSeq(t, SetMin(keep), SetMax(keep))

\* str.split(): the maximal runs of non-whitespace characters, in order
RECURSIVE SplitFrom(_, _)
SplitFrom(t, i) ==
  IF i > Len(t) THEN <<>>
  ELSE IF t[i] = " " THEN SplitFrom(t, i + 1)
  ELSE LET stops == {j \in i..Len(t) : t[j] = " "}
           e == IF stops = {} THEN Len(t) + 1 ELSE SetMin(stops)
       IN <<SubSeq(t, i, e - 1)>> \o SplitFrom(t, e)
Split(t) == SplitFrom(t, 1)

\* sub in t (substring test)
Contains(t, sub) ==
  \E i \in 1..(Len(t) - Len(sub) + 1) : SubSeq(t, i, i + Len(sub) - 1) = sub
\* t.startswith(p)
StartsWith(t, p) == Len(t) >= Len(p) /\ SubSeq(t, 1, Len(p)) = p

\* str.isupper(): at least one cased character and no lowercase one
IsUpperStr(t) ==
  /\ \E i \in DOMAIN t : t[i] \in UpperSet
  /\ \A i \in DOMAIN t : t[i] \notin LowerSet

AllDigits(t) == \A i \in DOMAIN t : t[i] \in Digits

\* ------------------------------------------- difflib.SequenceMatcher

\* length of the common run of a and b that starts at a[i], b[j]
RECURSIVE RunLen(_, _, _, _, _, _)
RunLen(a, b, i, j, ahi, bhi) ==
  IF i < ahi /\ j < bhi /\ a[i] = b[j]
  THEN 1 + RunLen(a, b, i + 1, j + 1, ahi, bhi)
  ELSE 0

\* the matching blocks that start a maximal common run inside the window,
\* each as <<i, j, size>>
Blocks(a, b, alo, ahi, blo, bhi) ==
  {<<p[1], p[2], RunLen(a, b, p[1], p[2], ahi, bhi)>> :
     p \in {q \in (alo..(ahi - 1)) \X (blo..(bhi - 1)) :
              /\ a[q[1]] = b[q[2]]
              /\ (q[1] = alo \/ q[2] = blo \/ a[q[1] - 1] # b[q[2] - 1])}}

\* m is preferred to n: longer, then earlier in a, then earlier in b
Better(m, n) ==
  \/ m[3] > n[3]
  \/ m[3] = n[3] /\ m[1] < n[1]
  \/ m[3] = n[3] /\ m[1] = n[1] /\ m[2] <= n[2]

\* find_longest_match(alo, ahi, blo, bhi): the longest matching block, the one
\* starting earliest in a and then earliest in b; <<i, j, k>>, k = 0 for none
Longest(C, alo, blo) ==
  IF C = {} THEN <<alo, blo, 0>> ELSE CHOOSE m \in C : \A n \in C : Better(m, n)
FindLongestMatch(a, b, alo, ahi, blo, bhi) ==
  Longest(Blocks(a, b, alo, ahi, blo, bhi), alo, blo)

\* get_matching_blocks(): the total size of the matching blocks; the longest
\* block m, then the blocks to its left and the blocks to its right
RECURSIVE MatchSize(_, _, _, _, _, _)
MatchAround(a, b, alo, ahi, blo, bhi, m) ==
  IF m[3] = 0 THEN 0
  ELSE m[3] + MatchSize(a, b, alo, m[1], blo, m[2])
            + MatchSize(a, b, m[1] + m[3], ahi, m[2] + m[3], bhi)
MatchSize(a, b, alo, ahi, blo, bhi) ==
  IF alo >= ahi \/ blo >= bhi THEN 0
  ELSE MatchAround(a, b, alo, ahi, blo, bhi,
                   FindLongestMatch(a, b, alo, ahi, blo, bhi))

\* the number of equal leading characters, over at most 4 positions
RECURSIVE PrefixMatch(_, _, _)
PrefixMatch(s1, s2, i) ==
  IF i <= Min2(4, Min2(Len(s1), Len(s2))) /\ s1[i] = s2[i]
  THEN 1 + PrefixMatch(s1, s2, i + 1)
  ELSE 0

\* FinalScore on the base score M/T
FinalScore_half_ratio(M, p, T) ==
  IF 10 * M + p * (T - M) > 10 * T THEN <<10 * T, 10 * T>>
  ELSE <<10 * M + p * (T - M), 10 * T>>
\* FinalScore with the bonus prefix * 0.1 added as it is, and no min
FinalScore_additive_bonus(M, p, T) == <<20 * M + p * T, 10 * T>>
\* base = 2M/T, final = base + prefix * 0.1 * (1 - base), min(final, 1.0)
FinalScore(M, p, T) ==
  IF 20 * M + p * (T - 2 * M) > 10 * T THEN <<10 * T, 10 * T>>
  ELSE <<20 * M + p * (T - 2 * M), 10 * T>>
\* SequenceMatcher(None, s1, s2).ratio() with the prefix bonus (1.0 when both
\* texts are empty)
Ratio(s1, s2) ==
  IF Len(s1) + Len(s2) = 0 THEN <<1, 1>>
  ELSE FinalScore(MatchSize(s1, s2, 1, Len(s1) + 1, 1, Len(s2) + 1),
                  PrefixMatch(s1, s2, 1), Len(s1) + Len(s2))
\* similarity_score(str1, str2) as the fraction <<num, den>>
similarity_score(str1, str2) == Ratio(Strip(Upper(str1)), Strip(Upper(str2)))

\* a fraction >= a number of hundredths
FracGE(f, h) == 100 * f[1] >= h * f[2]


\* ------------------------------------------------- layout configuration

\* the three extractor classes
Layouts == {"18F", "18B", "25B"}

\* self.anchors of CNIExtractor18F: the synonyms of each anchored field, in order
anchors18F ==
  [
    nom |-> <<
      <<"N","O","M">>,
      <<"S","U","R","N","A","M","E">>,
      <<"N","O","M","/","S","U","R","N","A","M","E">> >>,
    prenom |-> <<
      <<"P","R","E","N","O","M","S">>,
      <<"P","R","E","N","O","M">>,
      <<"G","I","V","E","N"," ","N","A","M","E","S">>,
      <<"G","I","V","E","N"," ","N","A","M","E">>,
      <<"P","R","E","N","O","M","S","/","G","I","V","E","N"," ","N","A","M","E","S">> >>,
    lieu_naissance |-> <<
      <<"L","I","E","U"," ","D","E"," ","N","A","I","S","S","A","N","C","E">>,
      <<"P","L","A","C","E"," ","O","F"," ","B","I","R","T","H">>,
      <<"L","I","E","U"," ","D","E","N","A","I","S","S","A","N","C","E">>,
      <<"P","L","A","C","E","O","F"," ","B","I","R","T","H">>,
      <<"L","I","E","U"," ","D","E"," ","N","A","I","S","S","A","N","C","E","/","P","L","A","C","E","O","F"," ","B","I","R","T","H">> >>,
    profession |-> <<
      <<"P","R","O","F","E","S","S","I","O","N">>,
      <<"O","C","C","U","P","A","T","I","O","N">>,
      <<"P","R","O","F","E","S","S","I","O","N","/","O","C","C","U","P","A","T","I","O","N">> >> ]
\* the keys of self.anchors, in insertion order
anchor_fields18F == <<"nom", "prenom", "lieu_naissance", "profession">>

\* self.anchors of CNIExtractor18B: the synonyms of each anchored field, in order
anchors18B ==
  [
    pere |-> <<
      <<"P","E","R","E">>,
      <<"F","A","T","H","E","R">>,
      <<"P","E","R","E","/","F","A","T","H","E","R">> >>,
    mere |-> <<
      <<"M","E","R","E">>,
      <<"M","O","T","H","E","R">>,
      <<"M","E","R","E","/","M","O","T","H","E","R">> >>,
    date_delivrance |-> <<
      <<"D","A","T","E"," ","D","E"," ","D","E","L","I","V","R","A","N","C","E">>,
      <<"D","A","T","E"," ","O","F"," ","I","S","S","U","E">>,
      <<"D","A","T","E"," ","D","E"," ","D","E","L","I","V","R","A","N","C","E","I">>,
      <<"D","A","T","E","O","F","I","S","S","U","E">> >>,
    date_expiration |-> <<
      <<"D","A","T","E"," ","D","'","E","X","P","I","R","A","T","I","O","N">>,
      <<"D","A","T","E"," ","O","F"," ","E","X","P","I","R","Y">>,
      <<"D","A","T","E","D","'","E","X","P","I","R","A","T","I","O","N">>,
      <<"D","A","T","E","O","F"," ","E","X","P","I","R","Y">> >>,
    adresse |-> <<
      <<"A","D","R","E","S","S","E">>,
      <<"A","D","D","R","E","S","S">>,
      <<"A","D","R","E","S","S","E","/","A","D","D","R","E","S","S">> >>,
    poste_identification |-> <<
      <<"P","O","S","T","E"," ","D","'","I","D","E","N","T","I","F","I","C","A","T","I","O","N">>,
      <<"I","D","E","N","T","I","F","I","C","A","T","I","O","N"," ","P","O","S","T">>,
      <<"P","O","S","T","E"," ","D","I","D","E","N","T","I","F","I","C","A","T","I","O","N">>,
      <<"P","O","S","T","E"," ","D","I","D","E","N","T","I","F","I","C","A","T","I","O","N","A">> >>,
    identifiant_unique |-> <<
      <<"I","D","E","N","T","I","F","I","A","N","T"," ","U","N","I","Q","U","E">>,
      <<"U","N","I","Q","U","E"," ","I","D","E","N","T","I","F","I","E","R">>,
      <<"I","D","E","N","T","I","F","I","A","N","T","U","N","I","Q","U","E">>,
      <<"U","N","I","Q","U","E","I","D","E","N","T","I","F","I","E","R">>,
      <<"I","D","E","N","T","I","F","I","A","N","T","U","N","I","Q","U","E","I">>,
      <<"U","N","I","Q","U","E","I","D","E","N","T","I","F","I","E","R","I">> >>,
    autorite |-> <<
      <<"A","U","T","O","R","I","T","E">>,
      <<"A","U","T","H","O","R","I","T","Y">>,
      <<"A","U","T","O","R","I","T","E","/","A","U","T","H","O","R","I","T","Y">> >> ]
\* the keys of self.anchors, in insertion order
anchor_fields18B == <<"pere", "mere", "date_delivrance", "date_expiration", "adresse", "poste_identification", "identifiant_unique", "autorite">>

\* self.anchors of CNIExtractor25B: the synonyms of each anchored field, in order
anchors25B ==
  [
    pere |-> <<
      <<"N","O","M"," ","D","U"," ","P","E","R","E">>,
      <<"F","A","T","H","E","R","'","S"," ","N","A","M","E">>,
      <<"N","O","M"," ","D","U"," ","P","E","R","E"," ","/","F","A","T","H","E","R","'","S"," ","N","A","M","E">>,
      <<"P","E","R","E">>,
      <<"F","A","T","H","E","R">> >>,
    mere |-> <<
      <<"N","O","M"," ","D","E"," ","L","A"," ","M","E","R","E">>,
      <<"M","O","T","H","E","R","'","S"," ","N","A","M","E">>,
      <<"N","O","M"," ","D","E"," ","L","A"," ","M","E","R","E"," ","/"," ","M","O","T","H","E","R","'","S"," ","N","A","M","E">>,
      <<"I"," ","M","O","T","H","E","R","'","S"," ","N","A","M","E">>,
      <<"M","E","R","E">>,
      <<"M","O","T","H","E","R">> >>,
    lieu_naissance |-> <<
      <<"L","I","E","U"," ","D","E"," ","N","A","I","S","S","A","N","C","E">>,
      <<"P","L","A","C","E"," ","O","F"," ","B","I","R","T","H">>,
      <<"L","I","E","U"," ","D","E"," ","N","A","I","S","S","A","N","C","E","I","P","L","A","C","E"," ","O","F"," ","B","I","R","T","H">>,
      <<"L","I","E","U"," ","D","E","N","A","I","S","S","A","N","C","E">>,
      <<"P","L","A","C","E","O","F"," ","B","I","R","T","H">> >>,
    date_delivrance |-> <<
      <<"D","A","T","E"," ","D","E"," ","D","E","L","I","V","R","A","N","C","E">>,
      <<"D","A","T","E"," ","O","F"," ","I","S","S","U","E">>,
      <<"D","A","T","E"," ","D","E"," ","D","E","L","I","V","R","A","N","C","E","I">>,
      <<"D","A","T","E","O","F","I","S","S","U","E">> >>,
    taille |-> <<
      <<"T","A","I","L","L","E">>,
      <<"H","E","I","G","H","T">>,
      <<"T","A","I","L","L","E","/">>,
      <<"T","A","I","L","L","E","/","H","E","I","G","H","T">> >>,
    profession |-> <<
      <<"P","R","O","F","E","S","S","I","O","N">>,
      <<"O","C","C","U","P","A","T","I","O","N">>,
      <<"P","R","O","F","E","S","S","I","O","N","/","O","C","C","U","P","A","T","I","O","N">> >>,
    numero_cni |-> <<
      <<"N","U","M","E","R","O"," ","C","N","I">>,
      <<"N","I","C"," ","N","U","M","B","E","R">>,
      <<"N","U","M","E","R","O"," ","C","N","I","/","N","I","C"," ","N","U","M","B","E","R">>,
      <<"N","U","M","E","R","O","C","N","I">>,
      <<"N","I","C","N","U","M","B","E","R">> >>,
    autorite |-> <<
      <<"L","E","D","G","S","N">>,
      <<"T","H","E"," ","D","G","N","S">>,
      <<"L","E","D","G","S","N","/","T","H","E"," ","D","G","N","S">>,
      <<"A","U","T","O","R","I","T","E">>,
      <<"A","U","T","H","O","R","I","T","Y">> >> ]
\* the keys of self.anchors, in insertion order
anchor_fields25B == <<"pere", "mere", "lieu_naissance", "date_delivrance", "taille", "profession", "numero_cni", "autorite">>

\* self.ignore_words of CNIExtractor25B
ignore_words25B == {
  <<"C","M","R">>,
  <<"C","A","M","E","R","O","U","N">>,
  <<"C","A","M","E","R","O","O","N">> }
\* the labels CNIExtractor18F.__init__ adds to all_labels beside the anchors
extra_labels18F == {
  <<"D","A","T","E"," ","D","E"," ","N","A","I","S","S","A","N","C","E">>,
  <<"D","A","T","E"," ","O","F"," ","B","I","R","T","H">>,
  <<"S","E","X","E">>,
  <<"S","E","X">>,
  <<"T","A","I","L","L","E">>,
  <<"H","E","I","G","H","T">>,
  <<"R","E","P","U","B","L","I","Q","U","E">>,
  <<"C","A","M","E","R","O","U","N">>,
  <<"R","E","P","U","B","L","I","C">>,
  <<"C","A","M","E","R","O","O","N">>,
  <<"C","A","R","T","E">>,
  <<"N","A","T","I","O","N","A","L","E">>,
  <<"I","D","E","N","T","I","T","E">>,
  <<"I","D","E","N","T","I","T","Y">>,
  <<"C","A","R","D">>,
  <<"P","R","O","F","E","S","S","I","O","N">>,
  <<"O","C","C","U","P","A","T","I","O","N">>,
  <<"S","I","G","N","A","T","U","R","E">> }
\* the labels CNIExtractor18B.__init__ adds to all_labels beside the anchors
extra_labels18B == {
  <<"S",".","P",".">>,
  <<"S",".","M",".">>,
  <<"S",".","P",".","/","S",".","M",".">>,
  <<"C","A","M","E","R","O","U","N">>,
  <<"C","A","M","E","R","O","O","N">> }
\* the bilingual-marker words of CNIExtractor18F.is_likely_label
slash_words18F == {
  <<"N","O","M">>,
  <<"S","U","R","N","A","M","E">>,
  <<"P","R","E","N","O","M">>,
  <<"G","I","V","E","N">>,
  <<"D","A","T","E">>,
  <<"L","I","E","U">>,
  <<"P","L","A","C","E">>,
  <<"S","E","X","E">>,
  <<"S","E","X">>,
  <<"T","A","I","L","L","E">>,
  <<"H","E","I","G","H","T">> }
\* the bilingual-marker words of CNIExtractor18B.is_likely_label
slash_words18B == {
  <<"P","E","R","E">>,
  <<"F","A","T","H","E","R">>,
  <<"M","E","R","E">>,
  <<"M","O","T","H","E","R">>,
  <<"D","A","T","E">>,
  <<"A","D","R","E","S","S","E">>,
  <<"A","D","D","R","E","S","S">> }
\* the bilingual-marker words of CNIExtractor25B.is_likely_label
slash_words25B == {
  <<"N","O","M">>,
  <<"N","A","M","E">>,
  <<"M","E","R","E">>,
  <<"M","O","T","H","E","R">>,
  <<"P","E","R","E">>,
  <<"F","A","T","H","E","R">>,
  <<"D","A","T","E">>,
  <<"L","I","E","U">>,
  <<"P","L","A","C","E">>,
  <<"T","A","I","L","L","E">>,
  <<"H","E","I","G","H","T">>,
  <<"P","R","O","F","E","S","S","I","O","N">>,
  <<"O","C","C","U","P","A","T","I","O","N">> }
\* label_words of CNIExtractor18F.is_likely_label
label_words18F == {
  <<"C","A","R","T","E">>,
  <<"N","A","T","I","O","N","A","L","E">>,
  <<"R","E","P","U","B","L","I","Q","U","E">>,
  <<"D","A","T","E">>,
  <<"L","I","E","U">>,
  <<"P","L","A","C","E">>,
  <<"B","I","R","T","H">>,
  <<"N","A","I","S","S","A","N","C","E">>,
  <<"I","D","E","N","T","I","T","Y">>,
  <<"C","A","R","D">>,
  <<"R","E","P","U","B","L","I","C">>,
  <<"C","A","M","E","R","O","O","N">>,
  <<"C","A","M","E","R","O","U","N">>,
  <<"O","F">>,
  <<"D","E">>,
  <<"D","U">>,
  <<"P","R","E","N","O","M","S">>,
  <<"P","R","E","N","O","M">>,
  <<"G","I","V","E","N">>,
  <<"N","A","M","E","S">>,
  <<"N","A","M","E">>,
  <<"N","O","M">>,
  <<"S","U","R","N","A","M","E">> }
\* label_words of CNIExtractor18B.is_likely_label
label_words18B == {
  <<"P","E","R","E">>,
  <<"F","A","T","H","E","R">>,
  <<"M","E","R","E">>,
  <<"M","O","T","H","E","R">>,
  <<"D","A","T","E">>,
  <<"D","E","L","I","V","R","A","N","C","E">>,
  <<"I","S","S","U","E">>,
  <<"E","X","P","I","R","A","T","I","O","N">>,
  <<"E","X","P","I","R","Y">>,
  <<"A","D","R","E","S","S","E">>,
  <<"A","D","D","R","E","S","S">>,
  <<"P","O","S","T","E">>,
  <<"I","D","E","N","T","I","F","I","C","A","T","I","O","N">>,
  <<"P","O","S","T">>,
  <<"I","D","E","N","T","I","F","I","A","N","T">>,
  <<"U","N","I","Q","U","E">>,
  <<"I","D","E","N","T","I","F","I","E","R">>,
  <<"A","U","T","O","R","I","T","E">>,
  <<"A","U","T","H","O","R","I","T","Y">>,
  <<"C","A","M","E","R","O","U","N">>,
  <<"C","A","M","E","R","O","O","N">> }
\* label_words of CNIExtractor25B.is_likely_label
label_words25B == {
  <<"N","O","M">>,
  <<"N","A","M","E">>,
  <<"P","E","R","E">>,
  <<"F","A","T","H","E","R">>,
  <<"M","E","R","E">>,
  <<"M","O","T","H","E","R">>,
  <<"D","A","T","E">>,
  <<"D","E","L","I","V","R","A","N","C","E">>,
  <<"I","S","S","U","E">>,
  <<"L","I","E","U">>,
  <<"N","A","I","S","S","A","N","C","E">>,
  <<"P","L","A","C","E">>,
  <<"B","I","R","T","H">>,
  <<"T","A","I","L","L","E">>,
  <<"H","E","I","G","H","T">>,
  <<"P","R","O","F","E","S","S","I","O","N">>,
  <<"O","C","C","U","P","A","T","I","O","N">>,
  <<"N","U","M","E","R","O">>,
  <<"C","N","I">>,
  <<"N","I","C">>,
  <<"N","U","M","B","E","R">>,
  <<"L","E","D","G","S","N">>,
  <<"D","G","N","S">>,
  <<"T","H","E">> }

anchors(L) ==
  IF L = "18F" THEN anchors18F ELSE IF L = "18B" THEN anchors18B ELSE anchors25B
anchor_fields(L) ==
  IF L = "18F" THEN anchor_fields18F
  ELSE IF L = "18B" THEN anchor_fields18B ELSE anchor_fields25B
slash_words(L) ==
  IF L = "18F" THEN slash_words18F
  ELSE IF L = "18B" THEN slash_words18B ELSE slash_words25B
label_words(L) ==
  IF L = "18F" THEN label_words18F
  ELSE IF L = "18B" THEN label_words18B ELSE label_words25B
\* self.ignore_words (only CNIExtractor25B has any)
ignore_words(L) == IF L = "25B" THEN ignore_words25B ELSE {}

\* self.all_labels: every anchor synonym, and the layout's other labels
all_labels(L) ==
  UNION {Range(anchors(L)[f]) : f \in Range(anchor_fields(L))}
    \cup (IF L = "18F" THEN extra_labels18F
          ELSE IF L = "18B" THEN extra_labels18B ELSE ignore_words25B)

\* thresholds, in hundredths
quality_threshold == 50
similarity_threshold == 70
LowScore == 30
GoodScore == 70
LabelSimilarity == 75
AuthorityScore == 90
FallbackScore == 85

\* the keys of extracted_data, in the order extract builds it
data_fields(L) ==
  IF L = "18F"
  THEN <<"nom", "prenom", "date_naissance", "lieu_naissance", "sexe", "taille",
         "profession">>
  ELSE IF L = "18B"
  THEN <<"pere", "mere", "date_delivrance", "date_expiration", "adresse",
         "poste_identification", "identifiant_unique", "autorite", "numero_cni">>
  ELSE <<"pere", "mere", "date_delivrance", "lieu_naissance", "taille",
         "profession", "identifiant_unique", "autorite">>

\* the keys of results in extract_fixed_format_fields
fixed_fields_of(L) ==
  IF L = "18F" THEN {"date_naissance", "sexe", "taille"}
  ELSE IF L = "18B"
  THEN {"date_delivrance", "date_expiration", "identifiant_unique", "numero_cni",
        "poste_code"}
  ELSE {"date_delivrance", "taille", "identifiant_unique"}

\* the keys of results in extract_remaining_fields
remaining_fields_of(L) ==
  IF L = "18F" THEN {"nom", "prenom", "lieu_naissance", "profession"}
  ELSE IF L = "18B"
  THEN {"pere", "mere", "adresse", "autorite", "poste_identification"}
  ELSE {"pere", "mere", "lieu_naissance", "profession", "autorite"}

\* the fields the anchor loop of extract_remaining_fields goes through
anchor_loop_fields(L) ==
  IF L = "18F" THEN <<"nom", "prenom", "lieu_naissance", "profession">>
  ELSE IF L = "18B" THEN <<"pere", "mere", "adresse", "autorite">>
  ELSE <<"pere", "mere", "lieu_naissance", "profession">>

\* --------------------------------------------------------- quality gate

\* the numbers in can_proceed
min_tokens(L) == IF L = "18F" THEN 8 ELSE 5
min_good(L) == IF L = "18F" THEN 5 ELSE 3

\* ocr_data.get(key, []): a missing key reads as the empty list
GetList(ocr_data, key) == IF key \in DOMAIN ocr_data THEN ocr_data[key] ELSE <<>>

\* [s for s in scores if s > bound]
ScoresAbove(scores, bound) == SelectSeq(scores, LAMBDA x : x > bound)

\* 0.0
Zero == <<0, 1>>

\* assess_quality with "more than min_tokens" for "at least min_tokens"
assess_quality_strict(L, ocr_data) ==
  LET scores == GetList(ocr_data, "rec_scores")
      texts == GetList(ocr_data, "rec_texts")
      valid_scores == ScoresAbove(scores, 0)
      good_quality == Len(ScoresAbove(scores, GoodScore))
  IN IF scores = <<>> \/ texts = <<>> THEN [proceed |-> FALSE, avg |-> Zero]
     ELSE IF valid_scores = <<>> THEN [proceed |-> FALSE, avg |-> Zero]
     ELSE [proceed |-> /\ Len(valid_scores) > min_tokens(L)
                       /\ FracGE(<<SumSeq(valid_scores), Len(valid_scores)>>,
                                 quality_threshold)
                       /\ good_quality >= min_good(L),
           avg |-> <<SumSeq(valid_scores), Len(valid_scores)>>]

\* assess_quality with the mean taken over all the scores
assess_quality_mean_of_all(L, ocr_data) ==
  LET scores == GetList(ocr_data, "rec_scores")
      texts == GetList(ocr_data, "rec_texts")
      valid_scores == ScoresAbove(scores, 0)
      good_quality == Len(ScoresAbove(scores, GoodScore))
  IN IF scores = <<>> \/ texts = <<>> THEN [proceed |-> FALSE, avg |-> Zero]
     ELSE IF valid_scores = <<>> THEN [proceed |-> FALSE, avg |-> Zero]
     ELSE [proceed |-> /\ Len(valid_scores) >= min_tokens(L)
                       /\ FracGE(<<SumSeq(scores), Len(scores)>>, quality_threshold)
                       /\ good_quality >= min_good(L),
           avg |-> <<SumSeq(scores), Len(scores)>>]

\* assess_quality(ocr_data): [proceed, avg], avg the fraction
\* sum(valid_scores) / len(valid_scores)
assess_quality(L, ocr_data) ==
  LET scores == GetList(ocr_data, "rec_scores")
      texts == GetList(ocr_data, "rec_texts")
      valid_scores == ScoresAbove(scores, 0)
      good_quality == Len(ScoresAbove(scores, GoodScore))
  IN IF scores = <<>> \/ texts = <<>> THEN [proceed |-> FALSE, avg |-> Zero]
     ELSE IF valid_scores = <<>> THEN [proceed |-> FALSE, avg |-> Zero]
     ELSE [proceed |-> /\ Len(valid_scores) >= min_tokens(L)
                       /\ FracGE(<<SumSeq(valid_scores), Len(valid_scores)>>,
                                 quality_threshold)
                       /\ good_quality >= min_good(L),
           avg |-> <<SumSeq(valid_scores), Len(valid_scores)>>]

\* -------------------------------------------------------- preprocessing

Token(text, score, polygon) == [text |-> text, score |-> score, polygon |-> polygon]

\* preprocess_one with the MRZ and country-code tests made on the text as
\* received, before it is trimmed
preprocess_one_untrimmed_tests(L, text, score, polygon) ==
  LET t == Strip(text)
  IN IF score < LowScore THEN <<>>
     ELSE IF t = <<>> THEN <<>>
     ELSE IF L \in {"18F", "18B"} /\ Len(t) <= 2 /\ (\E i \in DOMAIN t : t[i] \in NonAscii)
     THEN <<>>
     ELSE IF L = "25B" /\ (StartsWith(text, <<"I","<">>) \/ Contains(text, <<"<","<","<">>))
     THEN <<>>
     ELSE IF L = "25B" /\ text = <<"C","M","R">> THEN <<>>
     ELSE <<Token(t, score, polygon)>>

\* one iteration of the loop of preprocess: the token kept, or nothing
preprocess_one(L, text, score, polygon) ==
  LET t == Strip(text)
  IN IF score < LowScore THEN <<>>
     ELSE IF t = <<>> THEN <<>>
     ELSE IF L \in {"18F", "18B"} /\ Len(t) <= 2 /\ (\E i \in DOMAIN t : t[i] \in NonAscii)
     THEN <<>>
     ELSE IF L = "25B" /\ (StartsWith(t, <<"I","<">>) \/ Contains(t, <<"<","<","<">>))
     THEN <<>>
     ELSE IF L = "25B" /\ t = <<"C","M","R">> THEN <<>>
     ELSE <<Token(t, score, polygon)>>

\* preprocess(texts, scores, polygons): the loop over zip(texts, scores, polygons)
RECURSIVE preprocess_from(_, _, _, _, _)
preprocess_from(L, texts, scores, polygons, i) ==
  IF i > Min2(Len(texts), Min2(Len(scores), Len(polygons))) THEN <<>>
  ELSE preprocess_one(L, texts[i], scores[i], polygons[i])
         \o preprocess_from(L, texts, scores, polygons, i + 1)
\* preprocess that hands its tokens over last first
preprocess_reversed(L, texts, scores, polygons) ==
  [i \in 1..Len(preprocess_from(L, texts, scores, polygons, 1)) |->
     preprocess_from(L, texts, scores, polygons, 1)[
       Len(preprocess_from(L, texts, scores, polygons, 1)) + 1 - i]]
preprocess(L, texts, scores, polygons) == preprocess_from(L, texts, scores, polygons, 1)

\* ------------------------------------------------- fixed-format fields

DigitsAt(t, lo, hi) == \A i \in lo..hi : t[i] \in Digits

\* ^\d{1,2}[seps]\d{1,2}[seps]\d{4}$
DateMatch(t, seps) ==
  \E a \in 1..2, b \in 1..2 :
    /\ Len(t) = a + b + 6
    /\ DigitsAt(t, 1, a)
    /\ t[a + 1] \in seps
    /\ DigitsAt(t, a + 2, a + b + 1)
    /\ t[a + b + 2] \in seps
    /\ DigitsAt(t, a + b + 3, a + b + 6)

\* date_pattern with the separator / only
date_pattern_slash_only(L, t) == DateMatch(t, {"/"})
\* date_pattern: [./] in the 2018 layouts, \. in the 2025 back layout
date_pattern(L, t) == DateMatch(t, IF L = "25B" THEN {"."} ELSE {".", "/"})

\* taille_pattern of CNIExtractor18F: ^[12][,.]?\d{2}$
taille_pattern18F(t) ==
  \/ Len(t) = 3 /\ t[1] \in {"1", "2"} /\ DigitsAt(t, 2, 3)
  \/ Len(t) = 4 /\ t[1] \in {"1", "2"} /\ t[2] \in {",", "."} /\ DigitsAt(t, 3, 4)

\* taille_pattern of CNIExtractor25B: ^[12],?\d{2}m?$
taille_pattern25B(t) ==
  \E c \in 0..1, m \in 0..1 :
    /\ Len(t) = 3 + c + m
    /\ t[1] \in {"1", "2"}
    /\ (c = 1 => t[2] = ",")
    /\ DigitsAt(t, 2 + c, 3 + c)
    /\ (m = 1 => t[4 + c] = "m")

\* ^\d{lo,hi}$
NumericMatch(t, lo, hi) == Len(t) >= lo /\ Len(t) <= hi /\ AllDigits(t)
\* ^[A-Z]{2}\d{lo,hi}$
AlphaNumMatch(t, lo, hi) ==
  /\ Len(t) >= 2 + lo /\ Len(t) <= 2 + hi
  /\ t[1] \in UpperSet /\ t[2] \in UpperSet
  /\ DigitsAt(t, 3, Len(t))
id_unique_pattern(t) == NumericMatch(t, 15, 20)
numero_pattern(t) == NumericMatch(t, 9, 9)
poste_pattern(t) == AlphaNumMatch(t, 2, 2)
numero_cni_pattern(t) == AlphaNumMatch(t, 8, 10)

\* str.replace(old, new) for one-character old; new a text
RECURSIVE Replace(_, _, _)
Replace(t, old, new) ==
  IF t = <<>> THEN <<>>
  ELSE (IF Head(t) = old THEN new ELSE <<Head(t)>>) \o Replace(Tail(t), old, new)

\* the height as CNIExtractor18F stores it
taille_value18F(text) ==
  LET taille == Replace(text, ".", <<",">>)
  IN IF "," \notin Range(taille) /\ Len(taille) = 3
     THEN <<taille[1], ",">> \o SubSeq(taille, 2, 3)
     ELSE taille
\* the height as CNIExtractor25B stores it
taille_value25B(text) == Replace(Replace(text, "m", <<>>), ".", <<",">>)

\* one iteration of the loop of extract_fixed_format_fields; st is
\* [results, indices_removed, dates_found]
fixed_step(L, st, idx, text) ==
  LET r == st.results
      take(f, v) == [st EXCEPT !.results = [r EXCEPT ![f] = v],
                               !.indices_removed = Append(@, idx)]
  IN IF L = "18F" THEN
       IF r["date_naissance"] = None /\ date_pattern(L, text)
       THEN take("date_naissance", text)
       ELSE IF r["sexe"] = None /\ text \in {<<"M">>, <<"F">>}
       THEN take("sexe", text)
       ELSE IF r["taille"] = None /\ taille_pattern18F(text)
       THEN take("taille", taille_value18F(text))
       ELSE st
     ELSE IF L = "18B" THEN
       IF date_pattern(L, text)
       THEN [st EXCEPT !.dates_found = Append(@, <<text, idx>>),
                       !.indices_removed = Append(@, idx)]
       ELSE IF r["identifiant_unique"] = None /\ id_unique_pattern(text)
       THEN take("identifiant_unique", text)
       ELSE IF r["numero_cni"] = None /\ numero_pattern(text)
       THEN take("numero_cni", text)
       ELSE IF r["poste_code"] = None /\ poste_pattern(text)
       THEN take("poste_code", text)
       ELSE st
     ELSE
       IF r["date_delivrance"] = None /\ date_pattern(L, text)
       THEN take("date_delivrance", text)
       ELSE IF r["taille"] = None /\ taille_pattern25B(text)
       THEN take("taille", taille_value25B(text))
       ELSE IF r["identifiant_unique"] = None /\ numero_cni_pattern(text)
       THEN take("identifiant_unique", text)
       ELSE st

RECURSIVE fixed_loop(_, _, _, _)
fixed_loop(L, data, st, idx) ==
  IF idx > Len(data) THEN st
  ELSE fixed_loop(L, data, fixed_step(L, st, idx, data[idx].text), idx + 1)

\* extract_fixed_format_fields that gives the first date of the 2018 back to
\* date_expiration and the second to date_delivrance
extract_fixed_format_fields_expiry_first(L, data) ==
  LET st0 == [results |-> [f \in fixed_fields_of(L) |-> None],
              indices_removed |-> <<>>, dates_found |-> <<>>]
      st == fixed_loop(L, data, st0, 1)
      d == st.dates_found
      r1 == IF L = "18B" /\ Len(d) >= 1
            THEN [st.results EXCEPT !["date_expiration"] = d[1][1]] ELSE st.results
      r2 == IF L = "18B" /\ Len(d) >= 2
            THEN [r1 EXCEPT !["date_delivrance"] = d[2][1]] ELSE r1
  IN [results |-> r2, indices_removed |-> st.indices_removed]
\* extract_fixed_format_fields(data): [results, indices_removed]; the indices
\* are positions in data (1-based here)
extract_fixed_format_fields(L, data) ==
  LET st0 == [results |-> [f \in fixed_fields_of(L) |-> None],
              indices_removed |-> <<>>, dates_found |-> <<>>]
      st == fixed_loop(L, data, st0, 1)
      d == st.dates_found
      r1 == IF L = "18B" /\ Len(d) >= 1
            THEN [st.results EXCEPT !["date_delivrance"] = d[1][1]] ELSE st.results
      r2 == IF L = "18B" /\ Len(d) >= 2
            THEN [r1 EXCEPT !["date_expiration"] = d[2][1]] ELSE r1
  IN [results |-> r2, indices_removed |-> st.indices_removed]

\* [item for idx, item in enumerate(processed_data) if idx not in indices_removed]
RECURSIVE without_indices(_, _, _)
without_indices(data, removed, idx) ==
  IF idx > Len(data) THEN <<>>
  ELSE (IF idx \in Range(removed) THEN <<>> ELSE <<data[idx]>>)
         \o without_indices(data, removed, idx + 1)

\* ------------------------------------------------ exact arithmetic
\* The comparisons of extract_by_proximity are decided exactly: a natural
\* number is a sequence of base-10000 digits, least significant first, without
\* leading zeros (zero is the empty sequence).

Base == 10000

RECURSIVE BigNorm(_)
BigNorm(a) ==
  IF a = <<>> THEN <<>>
  ELSE IF a[Len(a)] = 0 THEN BigNorm(SubSeq(a, 1, Len(a) - 1)) ELSE a

RECURSIVE Big(_)
Big(n) == IF n = 0 THEN <<>> ELSE <<n % Base>> \o Big(n \div Base)

Digit(a, i) == IF i <= Len(a) THEN a[i] ELSE 0

RECURSIVE BigAddFrom(_, _, _, _)
BigAddFrom(a, b, i, carry) ==
  IF i > Len(a) /\ i > Len(b)
  THEN (IF carry = 0 THEN <<>> ELSE <<carry>>)
  ELSE LET v == Digit(a, i) + Digit(b, i) + carry
       IN <<v % Base>> \o BigAddFrom(a, b, i + 1, v \div Base)
BigAdd(a, b) == BigAddFrom(a, b, 1, 0)

\* a - b, for a >= b
RECURSIVE BigSubFrom(_, _, _, _)
BigSubFrom(a, b, i, borrow) ==
  IF i > Len(a) THEN <<>>
  ELSE LET v == Digit(a, i) - Digit(b, i) - borrow
       IN IF v < 0 THEN <<v + Base>> \o BigSubFrom(a, b, i + 1, 1)
          ELSE <<v>> \o BigSubFrom(a, b, i + 1, 0)
BigSub(a, b) == BigNorm(BigSubFrom(a, b, 1, 0))

\* a * d * Base^shift, d one digit
RECURSIVE BigMulDigitFrom(_, _, _, _)
BigMulDigitFrom(a, d, i, carry) ==
  IF i > Len(a) THEN (IF carry = 0 THEN <<>> ELSE <<carry>>)
  ELSE LET v == a[i] * d + carry
       IN <<v % Base>> \o BigMulDigitFrom(a, d, i + 1, v \div Base)

RECURSIVE BigMulFrom(_, _, _)
BigMulFrom(a, b, j) ==
  IF j > Len(b) THEN <<>>
  ELSE BigAdd([k \in 1..(j - 1) |-> 0] \o BigMulDigitFrom(a, b[j], 1, 0),
              BigMulFrom(a, b, j + 1))
BigMul(a, b) == BigNorm(BigMulFrom(a, b, 1))

\* a > b
BigGT(a, b) ==
  \/ Len(a) > Len(b)
  \/ /\ Len(a) = Len(b)
     /\ \E i \in DOMAIN a : a[i] > b[i] /\ \A k \in (i + 1)..Len(a) : a[k] = b[k]

Abs(n) == IF n < 0 THEN 0 - n ELSE n

BigSquare(a) == BigMul(a, a)

\* P + Q * sqrt(x) > R * sqrt(y), given P2 = P^2, Q2x = Q^2 x, R2y = R^2 y,
\* lhs2 = P2 + Q2x and U2x = (2PQ)^2 x.  Squaring once leaves
\* 2PQ sqrt(x) > R2y - lhs2, which the sign of P and a second squaring decide.
SurdDecide(P, P2, Q2x, R2y, lhs2, U2x) ==
  IF P <= 0 /\ ~BigGT(Q2x, P2) THEN FALSE              \* P + Q sqrt(x) <= 0
  ELSE IF P >= 0
  THEN \/ BigGT(lhs2, R2y)
       \/ BigGT(U2x, BigSquare(BigSub(R2y, lhs2)))
  ELSE /\ BigGT(lhs2, R2y)
       /\ BigGT(BigSquare(BigSub(lhs2, R2y)), U2x)
SurdSquares(P, P2, Q2x, R2y) ==
  SurdDecide(P, P2, Q2x, R2y, BigAdd(P2, Q2x), BigMul(Big(4), BigMul(P2, Q2x)))
\* P + Q * sqrt(x) > R * sqrt(y), for integers P and naturals Q, R, x, y
SurdGT(P, Q, x, R, y) ==
  SurdSquares(P, BigSquare(Big(Abs(P))), BigMul(BigSquare(Big(Q)), Big(x)),
              BigMul(BigSquare(Big(R)), Big(y)))

\* ------------------------------------------------------ labels, anchors

\* a fraction > another
FracGT(f, g) == f[1] * g[2] > g[1] * f[2]

\* the tests of is_likely_label on text, text.upper() and text.upper().split()
label_tests(L, text, text_upper, words) ==
  \/ text_upper \in ignore_words(L)
  \/ /\ "/" \in Range(text)
     /\ \E word \in slash_words(L) : Contains(text_upper, word)
  \/ \E label \in all_labels(L) :
       FracGE(similarity_score(text_upper, label), LabelSimilarity)
  \/ /\ Len(words) > 1
     /\ 2 * Cardinality({i \in DOMAIN words : words[i] \in label_words(L)})
          >= Len(words)
  \/ L = "18F" /\ text_upper \in label_words(L)
\* is_likely_label(text)
is_likely_label(L, text) == label_tests(L, text, Upper(text), Split(Upper(text)))

\* the last of the scores that reaches the similarity threshold, or None: the
\* inner loop without its break, keeping one entry
first_reaching_no_break(scores) ==
  IF \A k \in DOMAIN scores : ~FracGE(scores[k], similarity_threshold) THEN None
  ELSE scores[SetMax({k \in DOMAIN scores : FracGE(scores[k], similarity_threshold)})]
\* the first of the scores that reaches the similarity threshold, or None
first_reaching(scores) ==
  IF \A k \in DOMAIN scores : ~FracGE(scores[k], similarity_threshold) THEN None
  ELSE scores[SetMin({k \in DOMAIN scores : FracGE(scores[k], similarity_threshold)})]
\* the inner loop of detect_anchors for one token and one field: the score of
\* the first synonym that reaches the threshold, or None
first_anchor_score(L, field, text) ==
  first_reaching([k \in DOMAIN anchors(L)[field] |->
                    similarity_score(Upper(text), anchors(L)[field][k])])

\* ------------------------------------------------------------- inputs

\* a four-point bounding box, as the OCR engine returns them
Box(x, y) == <<<<x, y>>, <<x + 100, y>>, <<x + 100, y + 40>>, <<x, y + 40>>>>

\* The OCR fragments the inputs are built from, per layout: labels, values,
\* fixed-format tokens, noise (a stray glyph, a zero-confidence and a
\* low-confidence fragment, padded text), a fragment with an empty polygon, a
\* second date, on the 2018 front a name that resembles a label, on the 2018
\* back one word of a label read alone and, on the
\* 2025 back, a piece of a label cut off by the OCR and a height written
\* without separator.
catalogue18F == <<
  Token(<<"N","O","M","/","S","U","R","N","A","M","E">>, 95, Box(0, 100)),
  Token(<<"O","R","O","K","O">>, 92, Box(200, 100)),
  Token(<<"P","R","E","N","O","M","S">>, 93, Box(100, 100)),
  Token(<<" ","M","A","N","Y","I"," ">>, 80, Box(0, 200)),
  Token(<<"0","9",".","0","5",".","1","9","9","1">>, 90, Box(0, 300)),
  Token(<<"F">>, 88, Box(200, 300)),
  Token(<<"1",".","7","2">>, 25, Box(200, 400)),
  Token(<<"N","O","N">>, 91, Box(100, 300)),
  Token(<<"U+9E21">>, 60, Box(300, 0)),
  Token(<<"E","K","O">>, 0, Box(100, 200)),
  Token(<<"B","U","E","A">>, 86, <<>>),
  Token(<<"1","2",".","0","3",".","2","0","3","0">>, 90, Box(100, 400)),
  Token(<<"P","E","R","E","S">>, 90, Box(0, 200)) >>
catalogue18B == <<
  Token(<<"P","E","R","E","/","F","A","T","H","E","R">>, 95, Box(0, 100)),
  Token(<<"N","G","U"," ","P","A","U","L">>, 92, Box(200, 100)),
  Token(<<"M","E","R","E">>, 93, Box(100, 100)),
  Token(<<" ","M","a","r","t","i","n"," ","M","B","A","R","G","A"," ","N","G","U","E","L","E">>, 95, Box(200, 500)),
  Token(<<"1","2",".","0","3",".","2","0","1","9">>, 90, Box(0, 300)),
  Token(<<"1","2","/","0","3","/","2","0","2","9">>, 90, Box(200, 300)),
  Token(<<"L","T","0","2">>, 25, Box(0, 400)),
  Token(<<"P","E","R","E","Z">>, 91, Box(100, 300)),
  Token(<<"U+9E21">>, 60, Box(300, 0)),
  Token(<<"E","K","O">>, 0, Box(100, 200)),
  Token(<<"B","U","E","A">>, 86, <<>>),
  Token(<<"D","A","T","E">>, 94, Box(0, 200)) >>
catalogue25B == <<
  Token(<<"N","O","M"," ","D","U"," ","P","E","R","E">>, 95, Box(0, 100)),
  Token(<<"N","G","U"," ","P","A","U","L">>, 92, Box(200, 100)),
  Token(<<"N","O","M"," ","D","E"," ","L","A"," ","M","E","R","E">>, 93, Box(100, 100)),
  Token(<<"M","a","r","t","i","n"," ","M","B","A","R","G","A"," ","N","G","U","E","L","E"," ">>, 95, Box(200, 500)),
  Token(<<"1","2",".","0","3",".","1","9","9","0">>, 90, Box(0, 300)),
  Token(<<"1",",","6","6","m">>, 88, Box(200, 300)),
  Token(<<" ","C","M","R">>, 90, Box(300, 300)),
  Token(<<"I","<","C","M","R","<","<","<">>, 89, Box(0, 600)),
  Token(<<"C","O","M","M","E","R","C","A","N","T">>, 91, Box(100, 300)),
  Token(<<"U+9E21">>, 60, Box(300, 0)),
  Token(<<"E","K","O">>, 0, Box(100, 200)),
  Token(<<"B","U","E","A">>, 86, <<>>),
  Token(<<"1","2",".","0","3",".","2","0","3","0">>, 90, Box(100, 400)),
  Token(<<"D","u"," ","P","e","r","e",":">>, 95, Box(0, 200)),
  Token(<<"1","6","6","m">>, 88, Box(200, 300)) >>
catalogue(L) ==
  IF L = "18F" THEN catalogue18F ELSE IF L = "18B" THEN catalogue18B ELSE catalogue25B
\* the header line of the card, which pads the inputs
pad_text(L) ==
  IF L = "18F"
  THEN <<"R","E","P","U","B","L","I","Q","U","E"," ","D","U"," ","C","A","M","E","R","O","U","N">>
  ELSE <<"C","A","M","E","R","O","U","N">>
pad_token(L) == Token(pad_text(L), 95, Box(0, 0))

\* the texts preprocessing can hand to the later stages
vocabulary(L) == {Strip(catalogue(L)[i].text) : i \in DOMAIN catalogue(L)} \cup {pad_text(L)}

\* is_likely_label and first_anchor_score, evaluated once per text of the
\* vocabulary; any other text is computed on demand
label_memo == [L \in Layouts |-> [t \in vocabulary(L) |-> is_likely_label(L, t)]]
IsLabel(L, text) ==
  IF text \in vocabulary(L) THEN label_memo[L][text] ELSE is_likely_label(L, text)
anchor_memo ==
  [L \in Layouts |-> [t \in vocabulary(L) |->
     [f \in Range(anchor_fields(L)) |-> first_anchor_score(L, f, t)]]]
AnchorScore(L, field, text) ==
  IF text \in vocabulary(L) THEN anchor_memo[L][text][field]
  ELSE first_anchor_score(L, field, text)

\* ------------------------------------------------------ anchor detection

\* detected[field] of detect_anchors: the (idx, text, sim_score) of the tokens
\* that match a synonym of the field, in token order
RECURSIVE detected_from(_, _, _, _)
detected_from(L, data, field, idx) ==
  IF idx > Len(data) THEN <<>>
  ELSE LET sc == AnchorScore(L, field, data[idx].text)
       IN (IF sc = None THEN <<>> ELSE <<<<idx, data[idx].text, sc>>>>)
            \o detected_from(L, data, field, idx + 1)
detect_anchors(L, data) ==
  [f \in Range(anchor_fields(L)) |-> detected_from(L, data, f, 1)]

\* the last candidate of maximal score
best_anchor_last_of_max(list) ==
  list[SetMax({i \in DOMAIN list : \A j \in DOMAIN list : ~FracGT(list[j][3], list[i][3])})]
\* max(anchors[field], key=lambda x: x[2]): the first candidate of maximal score
best_anchor(list) ==
  list[SetMin({i \in DOMAIN list : \A j \in DOMAIN list : ~FracGT(list[j][3], list[i][3])})]

\* ------------------------------------------------------------ proximity

\* calculate_center(polygon) = (sum(x) / n, sum(y) / n), as <<sum x, sum y, n>>;
\* it divides by zero on an empty polygon
calculate_center(polygon) ==
  <<SumSeq([i \in DOMAIN polygon |-> polygon[i][1]]),
    SumSeq([i \in DOMAIN polygon |-> polygon[i][2]]), Len(polygon)>>
center_raises(polygon) == Len(polygon) = 0

\* value_center - anchor_center, times the two point counts
DeltaX(a, v) == v[1] * a[3] - a[1] * v[3]
DeltaY(a, v) == v[2] * a[3] - a[2] * v[3]
is_right(a, v) == DeltaX(a, v) > 0
is_below(a, v) == DeltaY(a, v) > 0

\* the squared distance of v from a, times (na * nv)^2, and 100 * na * nv
Dist2(a, v) == DeltaX(a, v) * DeltaX(a, v) + DeltaY(a, v) * DeltaY(a, v)
Scale(a, v) == 100 * a[3] * v[3]

\* si * 1/(1 + distance_i/100) > sj * 1/(1 + distance_j/100) for two tokens of
\* scores si, sj and centres ci, cj, and the anchor centre a.  With D = Dist2
\* and K = Scale this is  si Ki (Kj + sqrt(Dj)) > sj Kj (Ki + sqrt(Di))
closer(a, si, ci, sj, cj) ==
  SurdGT(Scale(a, ci) * Scale(a, cj) * (si - sj),
         si * Scale(a, ci), Dist2(a, cj), sj * Scale(a, cj), Dist2(a, ci))
proximity_gt(data, a, i, j) ==
  closer(a, data[i].score, calculate_center(data[i].polygon),
            data[j].score, calculate_center(data[j].polygon))

\* the tokens extract_by_proximity computes a centre for, beside the anchor
proximity_examined(L, data, anchor_idx) ==
  {idx \in DOMAIN data : idx # anchor_idx /\ ~IsLabel(L, data[idx].text)}

\* the tokens to the right of or below the anchor centre a
proximity_candidates(data, examined, a) ==
  {idx \in examined : \/ is_right(a, calculate_center(data[idx].polygon))
                      \/ is_below(a, calculate_center(data[idx].polygon))}
\* the last candidate of maximal score
proximity_best_last_of_max(data, candidates, a) ==
  SetMax({i \in candidates : \A j \in candidates : ~proximity_gt(data, a, j, i)})
\* max(candidates, key=score): the first candidate of maximal score
proximity_best(data, candidates, a) ==
  SetMin({i \in candidates : \A j \in candidates : ~proximity_gt(data, a, j, i)})
no_value == [raised |-> FALSE, value |-> None, idx |-> 0]
value_at(data, best) == [raised |-> FALSE, value |-> data[best].text, idx |-> best]
proximity_choice(data, candidates, a) ==
  IF candidates = {} THEN no_value
  ELSE value_at(data, proximity_best(data, candidates, a))
proximity_over(data, anchor_idx, examined) ==
  IF anchor_idx > Len(data) THEN no_value
  ELSE IF \/ center_raises(data[anchor_idx].polygon)
          \/ \E idx \in examined : center_raises(data[idx].polygon)
  THEN [raised |-> TRUE, value |-> None, idx |-> 0]
  ELSE proximity_choice(
         data,
         proximity_candidates(data, examined,
                              calculate_center(data[anchor_idx].polygon)),
         calculate_center(data[anchor_idx].polygon))
\* extract_by_proximity(data, anchor_idx, field_name):
\* [raised, value, idx], idx the position of the chosen token (0 for none)
extract_by_proximity(L, data, anchor_idx) ==
  proximity_over(data, anchor_idx, proximity_examined(L, data, anchor_idx))

\* ------------------------------------------- extract_remaining_fields
\* The state of extract_remaining_fields is
\*   results       the field map under construction
\*   used_values   the texts already given to a field
\*   used_indices  the positions marked as used (CNIExtractor18F only)
\*   picked        for each field, the positions in data of the tokens whose
\*                 text it was given, in the order given (a history, not a
\*                 variable of the code)
\*   anchor_idx    for each field, the anchor_idx extract_by_proximity was
\*                 called with for it, 0 if it was not called (a history)
\*   returned      for each field, the <<value, position>> that call returned,
\*                 <<>> if no call returned (a history)
\*   raised        an exception left the function

\* for idx, (text, _, _) in enumerate(data): if text == value: ...; break
first_index_of(data, value) == SetMin({i \in DOMAIN data : data[i].text = value})

\* the end of one iteration of the anchor loop, r the result of
\* extract_by_proximity
anchor_take(L, data, st, field, r) ==
  IF r.raised THEN [st EXCEPT !.raised = TRUE]
  ELSE IF r.value # None /\ ~IsLabel(L, r.value) /\ r.value \notin st.used_values
  THEN [st EXCEPT !.returned[field] = <<r.value, r.idx>>,
                  !.results[field] = r.value,
                  !.used_values = @ \cup {r.value},
                  !.used_indices = IF L = "18F"
                                   THEN @ \cup {first_index_of(data, r.value)}
                                   ELSE @,
                  !.picked[field] = Append(@, r.idx)]
  ELSE [st EXCEPT !.returned[field] = <<r.value, r.idx>>]
\* one iteration of the anchor loop
anchor_call(L, data, st, field, anchor_idx) ==
  anchor_take(L, data, [st EXCEPT !.anchor_idx[field] = anchor_idx], field,
              extract_by_proximity(L, data, anchor_idx))
anchor_step(L, data, detected, st, field) ==
  IF st.raised \/ detected[field] = <<>> THEN st
  ELSE anchor_call(L, data, st, field, best_anchor(detected[field])[1])

RECURSIVE anchor_loop(_, _, _, _, _)
anchor_loop(L, data, detected, st, k) ==
  IF k > Len(anchor_loop_fields(L)) THEN st
  ELSE anchor_loop(L, data, detected,
                   anchor_step(L, data, detected, st, anchor_loop_fields(L)[k]), k + 1)

\* results, used_indices and used_values as extract_remaining_fields sets them up
remaining_init(L, fixed) ==
  [results |-> [f \in remaining_fields_of(L) |->
                  IF f = "poste_identification" THEN fixed["poste_code"] ELSE None],
   used_values |-> {}, used_indices |-> {},
   picked |-> [f \in remaining_fields_of(L) |-> <<>>],
   anchor_idx |-> [f \in remaining_fields_of(L) |-> 0],
   returned |-> [f \in remaining_fields_of(L) |-> <<>>],
   raised |-> FALSE]

\* the anchor stage: "Extraction par ancres"
anchor_stage(L, data, detected, st) == anchor_loop(L, data, detected, st, 1)

\* every word of the text starts with an uppercase letter
words_capitalised(words) ==
  Len(words) >= 2 /\ \A i \in DOMAIN words : words[i][1] \in UpperSet
\* the token the authority heuristic takes: the first one that passes its tests
authority_match(L, st, tok) ==
  /\ tok.score > AuthorityScore
  /\ IF L = "18B"
     THEN words_capitalised(Split(tok.text))
     ELSE \/ Contains(Upper(tok.text), <<"M","B","A","R","G","A">>)
          \/ Contains(Upper(tok.text), <<"N","G","U","E","L","E">>)
  /\ tok.text \notin st.used_values
  /\ ~IsLabel(L, tok.text)

authority_take(data, st, hits) ==
  IF st.results["autorite"] # None \/ hits = {} THEN st
  ELSE [st EXCEPT !.results["autorite"] = data[SetMin(hits)].text,
                  !.picked["autorite"] = Append(@, SetMin(hits))]
\* the authority stage of the back layouts: "Pour l'autorite, chercher ..."
authority_stage(L, data, st) ==
  authority_take(data, st, {i \in DOMAIN data : authority_match(L, st, data[i])})

\* y_position of a <= y_position of b, for two centres
y_le(ca, cb) == ca[2] * cb[3] <= cb[2] * ca[3]

\* list.sort(key=y_position) on a sequence of positions of data: stable
RECURSIVE sort_by_y(_, _)
sort_after(data, idxs, m) ==
  <<idxs[m]>> \o sort_by_y(data, SubSeq(idxs, 1, m - 1)
                                   \o SubSeq(idxs, m + 1, Len(idxs)))
\* the list left in token order
sort_by_y_unsorted(data, idxs) == idxs
sort_by_y(data, idxs) ==
  IF idxs = <<>> THEN <<>>
  ELSE sort_after(data, idxs,
         SetMin({k \in DOMAIN idxs :
                   \A j \in DOMAIN idxs :
                     y_le(calculate_center(data[idxs[k]].polygon),
                          calculate_center(data[idxs[j]].polygon))}))

\* the positions of kept among idx..n, in order
RECURSIVE positions_from(_, _, _)
positions_from(kept, idx, n) ==
  IF idx > n THEN <<>>
  ELSE (IF idx \in kept THEN <<idx>> ELSE <<>>) \o positions_from(kept, idx + 1, n)

\* remaining_texts of CNIExtractor18F without the is_likely_label test
remaining_texts18F_with_labels(L, data, st) ==
  positions_from({idx \in DOMAIN data : /\ idx \notin st.used_indices
                                        /\ data[idx].text \notin st.used_values},
                 1, Len(data))

\* remaining_texts of CNIExtractor18F, before the sort (positions of data)
remaining_texts18F(L, data, st) ==
  positions_from({idx \in DOMAIN data : /\ idx \notin st.used_indices
                                        /\ ~IsLabel(L, data[idx].text)
                                        /\ data[idx].text \notin st.used_values},
                 1, Len(data))

\* "if not results[field] and remaining_texts": the first remaining text goes
\* to the field and to used_values ...
fallback_give18F(data, st, rem, field) ==
  IF st.results[field] = None /\ rem # <<>>
  THEN [st EXCEPT !.results[field] = data[rem[1]].text,
                  !.used_values = @ \cup {data[rem[1]].text},
                  !.picked[field] = Append(@, rem[1])]
  ELSE st
\* ... and remaining_texts.pop(0)
fallback_pop18F(st, rem, field) ==
  IF st.results[field] = None /\ rem # <<>> THEN Tail(rem) ELSE rem
fallback_lieu18F(data, st, rem) ==
  IF st.results["lieu_naissance"] = None /\ rem # <<>>
  THEN [st EXCEPT !.results["lieu_naissance"] = data[rem[1]].text,
                  !.picked["lieu_naissance"] = Append(@, rem[1])]
  ELSE st
fallback_prenom18F(data, st, rem) ==
  fallback_lieu18F(data, fallback_give18F(data, st, rem, "prenom"),
                   fallback_pop18F(st, rem, "prenom"))
fallback_nom18F(data, st, rem) ==
  fallback_prenom18F(data, fallback_give18F(data, st, rem, "nom"),
                     fallback_pop18F(st, rem, "nom"))
\* the positional stage on the remaining texts rem0, in token order
fallback_over18F(data, st, rem0) ==
  IF \E k \in DOMAIN rem0 : center_raises(data[rem0[k]].polygon)
  THEN [st EXCEPT !.raised = TRUE]
  ELSE fallback_nom18F(data, st, sort_by_y(data, rem0))
\* the positional stage of CNIExtractor18F
fallback_stage18F(L, data, st) ==
  fallback_over18F(data, st, remaining_texts18F(L, data, st))

\* remaining_texts of CNIExtractor25B (positions of data)
remaining_texts25B(L, data, st) ==
  positions_from({idx \in DOMAIN data : /\ data[idx].text \notin st.used_values
                                        /\ ~IsLabel(L, data[idx].text)
                                        /\ data[idx].score > FallbackScore
                                        /\ Len(data[idx].text) > 2},
                 1, Len(data))

fallback_give25B(data, st, idx, f) ==
  [st EXCEPT !.results[f] = data[idx].text, !.picked[f] = Append(@, idx)]
\* fallback_step25B that gives a capitalised text to pere without looking at
\* results['pere']
fallback_step25B_pere_unguarded(data, st, idx, text) ==
  IF st.results["profession"] = None /\ IsUpperStr(text) /\ " " \notin Range(text)
  THEN fallback_give25B(data, st, idx, "profession")
  ELSE IF text[1] \in UpperSet
  THEN fallback_give25B(data, st, idx, "pere")
  ELSE IF st.results["mere"] = None /\ text[1] \in UpperSet
  THEN fallback_give25B(data, st, idx, "mere")
  ELSE IF st.results["lieu_naissance"] = None
  THEN fallback_give25B(data, st, idx, "lieu_naissance")
  ELSE st
\* one iteration of "for item in remaining_texts" of CNIExtractor25B
fallback_step25B(data, st, idx, text) ==
  IF st.results["profession"] = None /\ IsUpperStr(text) /\ " " \notin Range(text)
  THEN fallback_give25B(data, st, idx, "profession")
  ELSE IF st.results["pere"] = None /\ text[1] \in UpperSet
  THEN fallback_give25B(data, st, idx, "pere")
  ELSE IF st.results["mere"] = None /\ text[1] \in UpperSet
  THEN fallback_give25B(data, st, idx, "mere")
  ELSE IF st.results["lieu_naissance"] = None
  THEN fallback_give25B(data, st, idx, "lieu_naissance")
  ELSE st

RECURSIVE fallback_loop25B(_, _, _, _)
fallback_loop25B(data, st, rem, k) ==
  IF k > Len(rem) THEN st
  ELSE fallback_loop25B(data, fallback_step25B(data, st, rem[k], data[rem[k]].text),
                        rem, k + 1)

\* the positional stage of CNIExtractor25B
fallback_stage25B(L, data, st) ==
  IF \A f \in {"pere", "mere", "lieu_naissance", "profession"} : st.results[f] # None
  THEN st
  ELSE fallback_loop25B(data, st, remaining_texts25B(L, data, st), 1)

\* the stage after the anchors and the authority heuristic; CNIExtractor18B
\* has none
fallback_stage(L, data, st) ==
  IF L = "18F" THEN fallback_stage18F(L, data, st)
  ELSE IF L = "25B" THEN fallback_stage25B(L, data, st)
  ELSE st

\* ------------------------------------------------------------- extract

\* extracted_data of extract: the consolidated field map
extracted_data(L, fixed, results) ==
  [f \in Range(data_fields(L)) |->
     IF L = "18B" /\ f = "poste_identification"
     THEN (IF results[f] # None THEN results[f] ELSE fixed["poste_code"])
     ELSE IF f \in remaining_fields_of(L) THEN results[f] ELSE fixed[f]]

\* filled_fields
filled_fields(data) == Cardinality({f \in DOMAIN data : data[f] # None})

\* confidence: filled_fields / 6.0 in CNIExtractor18F, filled_fields /
\* total_fields (0 for no field) in the back layouts
confidence_of(L, data) ==
  IF L = "18F" THEN <<filled_fields(data), 6>>
  ELSE IF Cardinality(DOMAIN data) > 0
  THEN <<filled_fields(data), Cardinality(DOMAIN data)>> ELSE Zero

\* the dictionary extract returns when the quality gate fails
insufficient_outcome(score) ==
  [success |-> FALSE, quality_score |-> score,
   message |-> "Qualite OCR insuffisante", data |-> [f \in {} |-> None]]

\* the dictionary extract returns at its end
success_outcome(L, score, detected, data) ==
  [success |-> TRUE, quality_score |-> score,
   confidence |-> confidence_of(L, data),
   anchors_detected |-> [f \in DOMAIN detected |-> detected[f] # <<>>],
   data |-> data]

\* ------------------------------------------------------- the inputs

\* the longest run of catalogue fragments in an enumerated input
MaxCore == 2
\* the same for an input dictionary that lacks one of its keys
MaxCoreDegenerate == 1

Keys == {"rec_texts", "rec_scores", "rec_polys"}

\* the positions of the catalogue the short inputs are drawn from; the later
\* positions occur in the scenarios only
core_positions(L) == 1..(IF L = "25B" THEN 12 ELSE 11)

\* the sequences without repetition of at most n of these positions
CoreSeqs(L, n) ==
  {c \in UNION {[1..k -> core_positions(L)] : k \in 0..n} :
     \A i, j \in DOMAIN c : i # j => c[i] # c[j]}

\* whole cards, as sequences of positions of the catalogue: a name anchor with
\* a label between it and its value, and the fragments of a card in reading
\* order, without and with the fragment that has no polygon; on the 2018
\* front also the name label, the name, the birth date and the sex alone, in
\* two orders; two dates in both orders; the name label, a name beside it and
\* a given name read twice below it; the name label with a given name below
\* it, a word further down and a name beside it; the name that resembles a
\* label, alone and below the name label; on the 2018 back a father label, a
\* name read twice that resembles the label more, and the father's name, and
\* a father label above one word of another label; on
\* the 2025 back the piece of a label alone and next to a name, and the
\* height without separator alone
scenarios(L) ==
  IF L = "18F"
  THEN {<<1, 3, 2>>, <<1, 2, 5, 6>>, <<6, 5, 2, 1>>, <<5, 12>>, <<12, 5>>,
        <<1, 2, 4, 4>>, <<1, 4, 8, 2>>, <<13>>, <<1, 13>>,
        <<1, 2, 3, 4, 5, 6, 8, 7, 9, 10>>,
        <<1, 2, 3, 4, 5, 6, 8, 7, 9, 10, 11>>}
  ELSE IF L = "18B"
  THEN {<<1, 3, 2>>, <<1, 8, 8, 2>>, <<1, 12>>, <<1, 2, 3, 4, 5, 6, 7, 8, 9, 10>>,
        <<1, 2, 3, 4, 5, 6, 7, 8, 9, 10, 11>>}
  ELSE {<<1, 3, 2>>, <<5, 13>>, <<13, 5>>, <<14>>, <<14, 2>>, <<2, 14>>, <<15>>,
        <<1, 2, 3, 4, 5, 6, 7, 8, 9, 10, 11>>,
        <<1, 2, 3, 4, 5, 6, 7, 8, 9, 10, 11, 12>>}

\* the catalogue fragments of the inputs with the keys of missing left out
Cores(L, missing) ==
  IF missing = {} THEN CoreSeqs(L, MaxCore) \cup scenarios(L)
  ELSE CoreSeqs(L, MaxCoreDegenerate)

\* the numbers of header lines in an input
PadCounts(L) == {0, min_tokens(L) - 2, min_tokens(L)}

\* the tokens of an input: npad header lines, then the fragments of core
InputTokens(L, npad, core) ==
  [i \in 1..npad |-> pad_token(L)] \o [i \in DOMAIN core |-> catalogue(L)[core[i]]]

\* the dictionary the OCR engine hands over, without the keys of missing
MakeInput(tokens, missing) ==
  LET full == [rec_texts |-> [i \in DOMAIN tokens |-> tokens[i].text],
               rec_scores |-> [i \in DOMAIN tokens |-> tokens[i].score],
               rec_polys |-> [i \in DOMAIN tokens |-> tokens[i].polygon]]
  IN [k \in Keys \ missing |-> full[k]]

\* -------------------------------------------------------- state machine
\* One call of extract on one extractor: pc is the position in extract.

VARIABLES
  layout,          \* the extractor class the call is made on
  ocr_data,        \* the argument of extract
  pc,              \* the position in extract
  can_proceed,     \* the results of assess_quality
  quality_score,
  processed_data,  \* the result of preprocess
  fixed_fields,    \* the result of extract_fixed_format_fields
  remaining_data,  \* processed_data without the fixed-format tokens
  detected,        \* the result of detect_anchors ("anchors" in extract)
  rem,             \* the state of extract_remaining_fields
  outcome,         \* the dictionary returned
  str1_arg, str2_arg,      \* the arguments of a call of similarity_score
  final_score,     \* its result
  extractor,       \* app.py: the global extractor
  app_pc,          \* app.py: the position of each request thread
  built,           \* app.py: the instance a thread constructed and has not stored yet
  current_extractor,  \* app.py: what init_extractor returned to each thread
  instances,       \* app.py: the number of IDCardDataExtractor objects constructed
  handled,         \* app.py: the number of requests each thread has answered
  request_counter, success_counter, error_counter,  \* api_server.py: the globals
  api_pc,          \* api_server.py: the position in the request under way
  shape,           \* api_server.py: what the request under way carries
  retry_count,     \* call_grpc_service: its argument retry_count
  attempts,        \* call_grpc_service: the number of attempts made (a history)
  attempt,         \* call_grpc_service: the outcome of the last attempt
  slept,           \* call_grpc_service: the delays slept so far (a history)
  result,          \* the dictionary call_grpc_service returned
  response,        \* the response of extract_data
  answered,        \* the responses of the completed requests (a history)
  health,          \* the metrics of the last answer of /api/health
  ocr_pc,          \* ocr_server.py: the position in the ExtractData request under way
  ocr_request,     \* ocr_server.py: the request under way
  created,         \* the file NamedTemporaryFile created for the request (a history)
  temp_path,       \* ExtractData: its local temp_path
  files,           \* the temporary files on the disk
  extract_call,    \* the arguments of self.extractor.extract (a history)
  pending,         \* ExtractData: the return or the exception under way
  ocr_response,    \* the OCRResponse of the request under way
  ocr_served       \* the number of ExtractData requests answered

\* the variables of a call of similarity_score
similarity_vars == <<str1_arg, str2_arg, final_score>>
\* the variables of a call of extract
extract_vars == <<layout, ocr_data, pc, can_proceed, quality_score, processed_data,
                  fixed_fields, remaining_data, detected, rem, outcome>>
\* the variables of the web application app.py
app_vars == <<extractor, app_pc, built, current_extractor, instances, handled>>
\* the variables of the REST front api_server.py
api_vars == <<request_counter, success_counter, error_counter, api_pc, shape,
              retry_count, attempts, attempt, slept, result, response, answered,
              health>>
\* the variables of the gRPC server ocr_server.py
ocr_vars == <<ocr_pc, ocr_request, created, temp_path, files, extract_call, pending,
              ocr_response, ocr_served>>
\* the variables of the services around the extractors
service_vars == <<app_vars, api_vars, ocr_vars>>
vars == <<layout, ocr_data, pc, can_proceed, quality_score, processed_data,
          fixed_fields, remaining_data, detected, rem, outcome,
          str1_arg, str2_arg, final_score, service_vars>>

\* the request threads of the Flask server (app.run(..., threaded=True))
NumThreads == 2
Threads == 1..NumThreads
\* the requests one thread answers
MaxRequests == 2
\* extractor = None
NoExtractor == 0

\* the services at rest
AppIdle ==
  /\ extractor = NoExtractor
  /\ app_pc = [t \in Threads |-> "idle"]
  /\ built = [t \in Threads |-> NoExtractor]
  /\ current_extractor = [t \in Threads |-> NoExtractor]
  /\ instances = 0
  /\ handled = [t \in Threads |-> 0]
\* the requests of /api/extract in a run
MaxApiRequests == 2
ApiIdle ==
  /\ request_counter = 0
  /\ success_counter = 0
  /\ error_counter = 0
  /\ api_pc = "idle"
  /\ shape = "none"
  /\ retry_count = 0
  /\ attempts = 0
  /\ attempt = [unset |-> TRUE]
  /\ slept = <<>>
  /\ result = [unset |-> TRUE]
  /\ response = [unset |-> TRUE]
  /\ answered = <<>>
  /\ health = [unset |-> TRUE]
\* the ExtractData requests in a run
MaxOcrRequests == 2
\* temp_path before its assignment, and a request that has no file
NoFile == 0
OcrIdle ==
  /\ ocr_pc = "idle"
  /\ ocr_request = [unset |-> TRUE]
  /\ created = NoFile
  /\ temp_path = NoFile
  /\ files = {}
  /\ extract_call = [unset |-> TRUE]
  /\ pending = [unset |-> TRUE]
  /\ ocr_response = [unset |-> TRUE]
  /\ ocr_served = 0
ServiceIdle == AppIdle /\ ApiIdle /\ OcrIdle

\* the value of a variable that is not assigned yet
Unset == [unset |-> TRUE]

Init ==
  /\ layout \in Layouts
  /\ \E missing \in {{}} \cup {{k} : k \in Keys} :
       \E core \in Cores(layout, missing) :
         \E npad \in PadCounts(layout) :
           ocr_data = MakeInput(InputTokens(layout, npad, core), missing)
  /\ pc = "start"
  /\ can_proceed = FALSE
  /\ quality_score = Zero
  /\ processed_data = <<>>
  /\ fixed_fields = Unset
  /\ remaining_data = <<>>
  /\ detected = Unset
  /\ rem = Unset
  /\ outcome = Unset
  /\ str1_arg = <<>>
  /\ str2_arg = <<>>
  /\ final_score = Unset
  /\ ServiceIdle

\* 1. can_proceed, quality_score = self.assess_quality(ocr_data)
AssessQuality ==
  /\ pc = "start"
  /\ can_proceed' = assess_quality(layout, ocr_data).proceed
  /\ quality_score' = assess_quality(layout, ocr_data).avg
  /\ pc' = "assessed"
  /\ UNCHANGED <<service_vars, similarity_vars, layout, ocr_data, processed_data, fixed_fields, remaining_data,
                 detected, rem, outcome>>

\* if not can_proceed: return {...}
ReturnInsufficient ==
  /\ pc = "assessed"
  /\ ~can_proceed
  /\ outcome' = insufficient_outcome(quality_score)
  /\ pc' = "done"
  /\ UNCHANGED <<service_vars, similarity_vars, layout, ocr_data, can_proceed, quality_score, processed_data,
                 fixed_fields, remaining_data, detected, rem>>

\* preprocess that filters and trims the caller's lists in place
Preprocess_in_place ==
  /\ pc = "assessed"
  /\ can_proceed
  /\ processed_data' = preprocess(layout, GetList(ocr_data, "rec_texts"),
                                  GetList(ocr_data, "rec_scores"),
                                  GetList(ocr_data, "rec_polys"))
  /\ ocr_data' = [k \in DOMAIN ocr_data |->
                    IF k = "rec_texts"
                    THEN [i \in DOMAIN processed_data' |-> processed_data'[i].text]
                    ELSE IF k = "rec_scores"
                    THEN [i \in DOMAIN processed_data' |-> processed_data'[i].score]
                    ELSE [i \in DOMAIN processed_data' |-> processed_data'[i].polygon]]
  /\ pc' = "preprocessed"
  /\ UNCHANGED <<service_vars, similarity_vars, layout, can_proceed, quality_score, fixed_fields,
                 remaining_data, detected, rem, outcome>>
\* 2. processed_data = self.preprocess(texts, scores, polygons)
Preprocess ==
  /\ pc = "assessed"
  /\ can_proceed
  /\ processed_data' = preprocess(layout, GetList(ocr_data, "rec_texts"),
                                  GetList(ocr_data, "rec_scores"),
                                  GetList(ocr_data, "rec_polys"))
  /\ pc' = "preprocessed"
  /\ UNCHANGED <<service_vars, similarity_vars, layout, ocr_data, can_proceed, quality_score, fixed_fields,
                 remaining_data, detected, rem, outcome>>

\* 3. fixed_fields = self.extract_fixed_format_fields(processed_data), and
\* remaining_data
ExtractFixedFormat ==
  /\ pc = "preprocessed"
  /\ LET ff == extract_fixed_format_fields(layout, processed_data)
     IN /\ fixed_fields' = ff
        /\ remaining_data' = without_indices(processed_data, ff.indices_removed, 1)
  /\ pc' = "fixed"
  /\ UNCHANGED <<service_vars, similarity_vars, layout, ocr_data, can_proceed, quality_score, processed_data,
                 detected, rem, outcome>>

\* 4. anchors = self.detect_anchors(remaining_data)
DetectAnchors ==
  /\ pc = "fixed"
  /\ detected' = detect_anchors(layout, remaining_data)
  /\ pc' = "detected"
  /\ UNCHANGED <<service_vars, similarity_vars, layout, ocr_data, can_proceed, quality_score, processed_data,
                 fixed_fields, remaining_data, rem, outcome>>

\* 5. extract_remaining_fields, its anchor loop; an exception leaves extract
AnchorStage ==
  /\ pc = "detected"
  /\ rem' = anchor_stage(layout, remaining_data, detected,
                         remaining_init(layout, fixed_fields.results))
  /\ pc' = IF rem'.raised THEN "raised" ELSE "anchored"
  /\ UNCHANGED <<service_vars, similarity_vars, layout, ocr_data, can_proceed, quality_score, processed_data,
                 fixed_fields, remaining_data, detected, outcome>>

\* extract_remaining_fields, the authority heuristic of the back layouts
AuthorityStage ==
  /\ pc = "anchored"
  /\ layout \in {"18B", "25B"}
  /\ rem' = authority_stage(layout, remaining_data, rem)
  /\ pc' = "authority"
  /\ UNCHANGED <<service_vars, similarity_vars, layout, ocr_data, can_proceed, quality_score, processed_data,
                 fixed_fields, remaining_data, detected, outcome>>

\* extract_remaining_fields, the positional stage of CNIExtractor18F and
\* CNIExtractor25B
FallbackStage ==
  /\ pc = (IF layout = "18F" THEN "anchored" ELSE "authority")
  /\ layout \in {"18F", "25B"}
  /\ rem' = fallback_stage(layout, remaining_data, rem)
  /\ pc' = IF rem'.raised THEN "raised" ELSE "fallback"
  /\ UNCHANGED <<service_vars, similarity_vars, layout, ocr_data, can_proceed, quality_score, processed_data,
                 fixed_fields, remaining_data, detected, outcome>>

\* 6. the results consolidated, the confidence computed, the dictionary returned
Consolidate ==
  /\ pc = (IF layout = "18B" THEN "authority" ELSE "fallback")
  /\ outcome' = success_outcome(layout, quality_score, detected,
                                extracted_data(layout, fixed_fields.results, rem.results))
  /\ pc' = "done"
  /\ UNCHANGED <<service_vars, similarity_vars, layout, ocr_data, can_proceed, quality_score, processed_data,
                 fixed_fields, remaining_data, detected, rem>>

Next ==
  \/ AssessQuality
  \/ ReturnInsufficient
  \/ Preprocess
  \/ ExtractFixedFormat
  \/ DetectAnchors
  \/ AnchorStage
  \/ AuthorityStage
  \/ FallbackStage
  \/ Consolidate

Spec == Init /\ [][Next]_vars

\* ------------------------------------------- calls of similarity_score
\* One call of similarity_score(str1, str2) on its own, on short strings over
\* an alphabet with an uppercase letter, a lowercase letter and a blank, and on
\* the texts of the 2018 front layout.

\* the longest enumerated string
MaxStrLen == 4
Alphabet == {"A", "b", " "}
ShortStrings == UNION {[1..n -> Alphabet] : n \in 0..MaxStrLen}
CardStrings ==
  {catalogue18F[i].text : i \in DOMAIN catalogue18F}
    \cup UNION {Range(anchors18F[f]) : f \in Range(anchor_fields18F)}

\* the entry of similarity_score; the method is the same in the three classes
InitSimilarity ==
  /\ str1_arg \in ShortStrings \cup CardStrings
  /\ str2_arg \in ShortStrings \cup CardStrings
  /\ final_score = Unset
  /\ pc = "call"
  /\ layout = "18F"
  /\ ocr_data = MakeInput(<<>>, {})
  /\ can_proceed = FALSE
  /\ quality_score = Zero
  /\ processed_data = <<>>
  /\ fixed_fields = Unset
  /\ remaining_data = <<>>
  /\ detected = Unset
  /\ rem = Unset
  /\ outcome = Unset
  /\ ServiceIdle

\* return min(final_score, 1.0)
SimilarityScore ==
  /\ pc = "call"
  /\ final_score' = similarity_score(str1_arg, str2_arg)
  /\ pc' = "returned"
  /\ UNCHANGED <<service_vars, str1_arg, str2_arg, layout, ocr_data, can_proceed,
                 quality_score, processed_data, fixed_fields, remaining_data,
                 detected, rem, outcome>>

SpecSimilarity == InitSimilarity /\ [][SimilarityScore]_vars

\* ------------------------------------------------------------ app.py
\* The request threads of the Flask application: each request of /test and
\* each accepted request of /upload calls init_extractor.

\* no call of extract or of similarity_score is under way
ExtractIdle ==
  /\ layout = "18F"
  /\ ocr_data = MakeInput(<<>>, {})
  /\ pc = "service"
  /\ can_proceed = FALSE
  /\ quality_score = Zero
  /\ processed_data = <<>>
  /\ fixed_fields = Unset
  /\ remaining_data = <<>>
  /\ detected = Unset
  /\ rem = Unset
  /\ outcome = Unset
  /\ str1_arg = <<>>
  /\ str2_arg = <<>>
  /\ final_score = Unset

InitApp == ExtractIdle /\ ServiceIdle

\* a request of /test, or a request of /upload that passes the checks of its
\* file, version and side: the thread enters init_extractor
StartRequest(t) ==
  /\ app_pc[t] = "idle"
  /\ handled[t] < MaxRequests
  /\ app_pc' = [app_pc EXCEPT ![t] = "check"]
  /\ UNCHANGED <<extract_vars, similarity_vars, api_vars, ocr_vars, extractor, built, current_extractor,
                 instances, handled>>

\* a request of /upload without file, version or side, or with a file type
\* that is not allowed: answered 400 before init_extractor
RejectUpload(t) ==
  /\ app_pc[t] = "idle"
  /\ handled[t] < MaxRequests
  /\ handled' = [handled EXCEPT ![t] = @ + 1]
  /\ UNCHANGED <<extract_vars, similarity_vars, api_vars, ocr_vars, extractor, app_pc, built,
                 current_extractor, instances>>

\* if extractor is None:
CheckExtractor(t) ==
  /\ app_pc[t] = "check"
  /\ app_pc' = [app_pc EXCEPT ![t] = IF extractor = NoExtractor THEN "construct"
                                     ELSE "return"]
  /\ UNCHANGED <<extract_vars, similarity_vars, api_vars, ocr_vars, extractor, built, current_extractor,
                 instances, handled>>

\* IDCardDataExtractor(BASE_MODEL_PATH): a new instance, or an exception that
\* leaves init_extractor and is answered 500
ConstructExtractor(t) ==
  /\ app_pc[t] = "construct"
  /\ \/ /\ instances' = instances + 1
        /\ built' = [built EXCEPT ![t] = instances + 1]
        /\ app_pc' = [app_pc EXCEPT ![t] = "assign"]
        /\ UNCHANGED handled
     \/ /\ app_pc' = [app_pc EXCEPT ![t] = "idle"]
        /\ handled' = [handled EXCEPT ![t] = @ + 1]
        /\ UNCHANGED <<instances, built>>
  /\ UNCHANGED <<extract_vars, similarity_vars, api_vars, ocr_vars, extractor, current_extractor>>

\* extractor = <the new instance>
AssignExtractor(t) ==
  /\ app_pc[t] = "assign"
  /\ extractor' = built[t]
  /\ built' = [built EXCEPT ![t] = NoExtractor]
  /\ app_pc' = [app_pc EXCEPT ![t] = "return"]
  /\ UNCHANGED <<extract_vars, similarity_vars, api_vars, ocr_vars, current_extractor, instances, handled>>

\* return extractor, and the rest of the request with current_extractor
ReturnExtractor(t) ==
  /\ app_pc[t] = "return"
  /\ current_extractor' = [current_extractor EXCEPT ![t] = extractor]
  /\ app_pc' = [app_pc EXCEPT ![t] = "idle"]
  /\ handled' = [handled EXCEPT ![t] = @ + 1]
  /\ UNCHANGED <<extract_vars, similarity_vars, api_vars, ocr_vars, extractor, built, instances>>

NextApp ==
  \E t \in Threads :
    \/ StartRequest(t)
    \/ RejectUpload(t)
    \/ CheckExtractor(t)
    \/ ConstructExtractor(t)
    \/ AssignExtractor(t)
    \/ ReturnExtractor(t)

SpecApp == InitApp /\ [][NextApp]_vars

\* ------------------------------------------------------- api_server.py
\* The REST front: /api/extract under the decorator log_metrics, its call of
\* call_grpc_service, and /api/health.  The requests are answered one after
\* the other.

\* str.lower()
LowerChar(c) ==
  IF c \in UpperSet THEN LowerSeq[CHOOSE i \in 1..26 : UpperSeq[i] = c] ELSE c
Lower(t) == [i \in DOMAIN t |-> LowerChar(t[i])]

\* max_retries = 3 and retry_delay = [5, 10, 20]
max_retries == 3
retry_delay == <<5, 10, 20>>

\* what a request of /api/extract can carry: no 'image' part, an empty file
\* name, a file type that is not allowed, a version or a side that is not
\* known, an empty file, a file whose read raises, and a well-formed request
Shapes ==
  {"no_file", "empty_filename", "bad_type", "bad_version", "bad_side",
   "empty_file", "unreadable", "valid"}
\* the error_code extract_data answers a request with before any call of the
\* gRPC service
early_error(s) ==
  IF s = "no_file" THEN "NO_FILE"
  ELSE IF s = "empty_filename" THEN "EMPTY_FILENAME"
  ELSE IF s = "bad_type" THEN "INVALID_FILE_TYPE"
  ELSE IF s = "bad_version" THEN "INVALID_VERSION"
  ELSE IF s = "bad_side" THEN "INVALID_SIDE"
  ELSE IF s = "empty_file" THEN "EMPTY_FILE"
  ELSE "INTERNAL_ERROR"
early_status(s) == IF s = "unreadable" THEN 500 ELSE 400

\* the outcomes of one attempt of call_grpc_service: a response of the gRPC
\* server, a grpc.RpcError with its status code, or another exception with
\* its message (the time-out of channel_ready_future, a refused connection,
\* and json.loads failing on extracted_data)
RpcCodes == {"UNAVAILABLE", "DEADLINE_EXCEEDED", "INTERNAL", "CANCELLED"}
Messages ==
  {<<"T","i","m","e","o","u","t"," ","l","o","r","s"," ","d","e"," ","l","a"," ","c","o","n","n","e","x","i","o","n"," ","a","u"," ","s","e","r","v","e","u","r"," ","g","R","P","C">>,
   <<"C","o","n","n","e","c","t","i","o","n"," ","r","e","f","u","s","e","d">>,
   <<"E","x","p","e","c","t","i","n","g"," ","v","a","l","u","e",":"," ","l","i","n","e"," ","1"," ","c","o","l","u","m","n"," ","1"," ","(","c","h","a","r"," ","0",")">>}
Outcomes ==
  {[kind |-> "response", success |-> b] : b \in BOOLEAN}
    \cup {[kind |-> "RpcError", code |-> c] : c \in RpcCodes}
    \cup {[kind |-> "Exception", message |-> m] : m \in Messages}

\* the condition of an automatic retry after the exception e, raised with
\* the argument retry_count rc, negated at the limit
may_retry_no_limit(rc, e) ==
  IF e.kind = "RpcError"
  THEN rc <= max_retries /\ e.code \in {"UNAVAILABLE", "DEADLINE_EXCEEDED"}
  ELSE rc <= max_retries
         /\ (Contains(Lower(e.message), <<"c","o","n","n","e","c","t","i","o","n">>)
               \/ Contains(Lower(e.message), <<"t","i","m","e","o","u","t">>))
\* the conditions of the two except clauses of call_grpc_service
may_retry(rc, e) ==
  IF e.kind = "RpcError"
  THEN rc < max_retries /\ e.code \in {"UNAVAILABLE", "DEADLINE_EXCEEDED"}
  ELSE rc < max_retries
         /\ (Contains(Lower(e.message), <<"c","o","n","n","e","c","t","i","o","n">>)
               \/ Contains(Lower(e.message), <<"t","i","m","e","o","u","t">>))
\* delay = retry_delay[min(retry_count, len(retry_delay) - 1)]
delay_of(rc) == retry_delay[Min2(rc, Len(retry_delay) - 1) + 1]

\* the dictionary returned after a response of the server ...
result_of_response(o, rc) ==
  [success |-> o.success, retry_count |-> rc, final_failure |-> FALSE]
\* ... and after an exception that is not retried ('final_failure': True)
result_of_failure(rc) ==
  [success |-> FALSE, retry_count |-> rc, final_failure |-> TRUE]

\* the answer of extract_data to the dictionary r
error_code_of(r) ==
  IF r.final_failure
  THEN (IF r.retry_count >= 2 THEN "SERVICE_UNAVAILABLE" ELSE "TEMPORARY_ERROR")
  ELSE "PROCESSING_ERROR"
response_of(r) ==
  IF r.success THEN [success |-> TRUE, status |-> 200, error_code |-> "none"]
  ELSE [success |-> FALSE,
        status |-> IF error_code_of(r) = "SERVICE_UNAVAILABLE" THEN 503 ELSE 500,
        error_code |-> error_code_of(r)]

InitApi == ExtractIdle /\ ServiceIdle

\* log_metrics.wrapper up to the call of extract_data: request_counter += 1
WrapperEnter ==
  /\ api_pc = "idle"
  /\ Len(answered) < MaxApiRequests
  /\ \E s \in Shapes : shape' = s
  /\ request_counter' = request_counter + 1
  /\ api_pc' = "extract_data"
  /\ attempts' = 0
  /\ attempt' = Unset
  /\ slept' = <<>>
  /\ retry_count' = 0
  /\ result' = Unset
  /\ response' = Unset
  /\ UNCHANGED <<extract_vars, similarity_vars, app_vars, ocr_vars, success_counter,
                 error_counter, answered, health>>

\* extract_data on a request it answers itself: the 400 answers of its
\* checks, and the 500 answer of its except clause
AnswerEarly ==
  /\ api_pc = "extract_data"
  /\ shape # "valid"
  /\ response' = [success |-> FALSE, status |-> early_status(shape),
                  error_code |-> early_error(shape)]
  /\ api_pc' = "answered"
  /\ UNCHANGED <<extract_vars, similarity_vars, app_vars, ocr_vars, request_counter,
                 success_counter, error_counter, shape, retry_count, attempts, attempt,
                 slept, result, answered, health>>

\* extract_data on a well-formed request: call_grpc_service(..., retry_count=0)
CallGrpcService ==
  /\ api_pc = "extract_data"
  /\ shape = "valid"
  /\ api_pc' = "attempt"
  /\ UNCHANGED <<extract_vars, similarity_vars, app_vars, ocr_vars, request_counter,
                 success_counter, error_counter, shape, retry_count, attempts, attempt,
                 slept, result, response, answered, health>>

\* one attempt of call_grpc_service: the body of its try
GrpcAttempt ==
  /\ api_pc = "attempt"
  /\ \E o \in Outcomes : attempt' = o
  /\ attempts' = attempts + 1
  /\ api_pc' = IF attempt'.kind = "response" THEN "return" ELSE "except"
  /\ UNCHANGED <<extract_vars, similarity_vars, app_vars, ocr_vars, request_counter,
                 success_counter, error_counter, shape, retry_count, slept,
                 result, response, answered, health>>

\* return {'success': response.success, ..., 'retry_count': retry_count}
GrpcReturn ==
  /\ api_pc = "return"
  /\ result' = result_of_response(attempt, retry_count)
  /\ api_pc' = "result"
  /\ UNCHANGED <<extract_vars, similarity_vars, app_vars, ocr_vars, request_counter,
                 success_counter, error_counter, shape, retry_count, attempts, attempt,
                 slept, response, answered, health>>

\* an except clause that retries: time.sleep(delay), then
\* return call_grpc_service(..., retry_count + 1)
GrpcRetry ==
  /\ api_pc = "except"
  /\ may_retry(retry_count, attempt)
  /\ slept' = Append(slept, delay_of(retry_count))
  /\ retry_count' = retry_count + 1
  /\ api_pc' = "attempt"
  /\ UNCHANGED <<extract_vars, similarity_vars, app_vars, ocr_vars, request_counter,
                 success_counter, error_counter, shape, attempts, attempt, result,
                 response, answered, health>>

\* an except clause that gives up: return {'success': False, ...,
\* 'final_failure': True}
GrpcFail ==
  /\ api_pc = "except"
  /\ ~may_retry(retry_count, attempt)
  /\ result' = result_of_failure(retry_count)
  /\ api_pc' = "result"
  /\ UNCHANGED <<extract_vars, similarity_vars, app_vars, ocr_vars, request_counter,
                 success_counter, error_counter, shape, retry_count, attempts, attempt,
                 slept, response, answered, health>>

\* extract_data after call_grpc_service: the answer built from result
AnswerResult ==
  /\ api_pc = "result"
  /\ response' = response_of(result)
  /\ api_pc' = "answered"
  /\ UNCHANGED <<extract_vars, similarity_vars, app_vars, ocr_vars, request_counter,
                 success_counter, error_counter, shape, retry_count, attempts, attempt,
                 slept, result, answered, health>>

\* log_metrics.wrapper after extract_data has returned: success_counter += 1.
\* extract_data catches every Exception itself, so the except clause of the
\* wrapper (error_counter += 1) is never entered.
WrapperReturn ==
  /\ api_pc = "answered"
  /\ success_counter' = success_counter + 1
  /\ answered' = Append(answered, response)
  /\ api_pc' = "idle"
  /\ UNCHANGED <<extract_vars, similarity_vars, app_vars, ocr_vars, request_counter,
                 error_counter, shape, retry_count, attempts, attempt, slept, result,
                 response, health>>

\* /api/health: the metrics of health_data
HealthCheck ==
  /\ api_pc = "idle"
  /\ health' = [total_requests |-> request_counter,
                successful_requests |-> success_counter,
                failed_requests |-> error_counter]
  /\ UNCHANGED <<extract_vars, similarity_vars, app_vars, ocr_vars, request_counter,
                 success_counter, error_counter, api_pc, shape, retry_count,
                 attempts, attempt, slept, result, response, answered>>

NextApi ==
  \/ WrapperEnter
  \/ AnswerEarly
  \/ CallGrpcService
  \/ GrpcAttempt
  \/ GrpcReturn
  \/ GrpcRetry
  \/ GrpcFail
  \/ AnswerResult
  \/ WrapperReturn
  \/ HealthCheck

SpecApi == InitApi /\ [][NextApi]_vars
\* every step of a request ends: the connection test, the call of the server
\* and the sleeps have time-outs or fixed lengths
SpecApiFair ==
  SpecApi /\ WF_vars(AnswerEarly \/ CallGrpcService \/ GrpcAttempt \/ GrpcReturn
                       \/ GrpcRetry \/ GrpcFail \/ AnswerResult \/ WrapperReturn)

\* --------------------------------------------------------- ocr_server.py
\* OCRServiceImpl.ExtractData.  The gRPC server has one worker
\* (ThreadPoolExecutor(max_workers=1)): the requests are served one after the
\* other.

\* CardVersion.v2018 if request.version == '2018' else CardVersion.v2025
card_version_of(version) == IF version = "2018" THEN "v2018" ELSE "v2025"
\* CardSide.RECTO if request.side == 'recto' else CardSide.VERSO
card_side_of(side) == IF side = "recto" THEN "RECTO" ELSE "VERSO"

\* the requests: the version and the side are free strings of the message
OcrRequests ==
  [version : {"2018", "2025", "2030"}, side : {"recto", "verso", "front"},
   thinking_mode : BOOLEAN]
\* the ways self.extractor.extract ends: it returns (raw_text, extracted_data)
\* with a dictionary that is empty or not, or it raises
ExtractOutcomes ==
  {[kind |-> "return", data |-> d] : d \in {"empty", "fields"}}
    \cup {[kind |-> "raise", message |-> m] :
            m \in {"Image introuvable", "CUDA out of memory"}}
\* json.dumps(extracted_data, ...) if extracted_data else "{}"
json_data_of(d) == IF d = "fields" THEN "{fields}" ELSE "{}"
\* the two OCRResponse messages of the handler
success_response(o) ==
  [success |-> TRUE, raw_text |-> "raw_text",
   extracted_data |-> json_data_of(o.data), error |-> ""]
failure_response(e) ==
  [success |-> FALSE, raw_text |-> "", extracted_data |-> "{}", error |-> e]

InitOcr == ExtractIdle /\ ServiceIdle

\* a request arrives: the handler is entered
OcrReceive ==
  /\ ocr_pc = "idle"
  /\ ocr_served < MaxOcrRequests
  /\ \E r \in OcrRequests : ocr_request' = r
  /\ created' = NoFile
  /\ temp_path' = NoFile
  /\ extract_call' = [unset |-> TRUE]
  /\ pending' = [unset |-> TRUE]
  /\ ocr_response' = [unset |-> TRUE]
  /\ ocr_pc' = "tempfile"
  /\ UNCHANGED <<extract_vars, similarity_vars, app_vars, api_vars, files, ocr_served>>

\* tempfile.NamedTemporaryFile(delete=False, suffix='.jpg'): a new file on
\* the disk, or an exception when no file can be created
OcrCreateTempFile ==
  /\ ocr_pc = "tempfile"
  /\ \/ /\ created' = ocr_served + 1
        /\ files' = files \cup {created'}
        /\ ocr_pc' = "write"
        /\ UNCHANGED pending
     \/ /\ pending' = [kind |-> "raise",
                       error |-> "No usable temporary directory found"]
        /\ ocr_pc' = "except"
        /\ UNCHANGED <<created, files>>
  /\ UNCHANGED <<extract_vars, similarity_vars, app_vars, api_vars, ocr_request,
                 temp_path, extract_call, ocr_response, ocr_served>>

\* temp_file.write(request.image_data); temp_path = temp_file.name.  When
\* write raises, the with statement closes the file, which delete=False keeps
\* on the disk, and temp_path is not assigned.
OcrWriteImage ==
  /\ ocr_pc = "write"
  /\ \/ /\ temp_path' = created
        /\ ocr_pc' = "extract"
        /\ UNCHANGED pending
     \/ /\ pending' = [kind |-> "raise",
                       error |-> "[Errno 28] No space left on device"]
        /\ ocr_pc' = "except"
        /\ UNCHANGED temp_path
  /\ UNCHANGED <<extract_vars, similarity_vars, app_vars, api_vars, ocr_request,
                 created, files, extract_call, ocr_response, ocr_served>>

\* the inner try: the conversions, self.extractor.extract(temp_path, ...),
\* json.dumps and the return statement
OcrExtract ==
  /\ ocr_pc = "extract"
  /\ extract_call' = <<temp_path, card_version_of(ocr_request.version),
                       card_side_of(ocr_request.side), ocr_request.thinking_mode>>
  /\ \E o \in ExtractOutcomes :
       pending' = IF o.kind = "return"
                  THEN [kind |-> "return", response |-> success_response(o)]
                  ELSE [kind |-> "raise", error |-> o.message]
  /\ ocr_pc' = "finally"
  /\ UNCHANGED <<extract_vars, similarity_vars, app_vars, api_vars, ocr_request,
                 created, temp_path, files, ocr_response, ocr_served>>

\* finally: if os.path.exists(temp_path): os.unlink(temp_path); then the
\* return or the exception under way goes on
OcrCleanup ==
  /\ ocr_pc = "finally"
  /\ files' = IF temp_path \in files THEN files \ {temp_path} ELSE files
  /\ ocr_response' = IF pending.kind = "return" THEN pending.response
                      ELSE ocr_response
  /\ ocr_pc' = IF pending.kind = "return" THEN "returned" ELSE "except"
  /\ UNCHANGED <<extract_vars, similarity_vars, app_vars, api_vars, ocr_request,
                 created, temp_path, extract_call, pending, ocr_served>>

\* except Exception as e: return OCRResponse(success=False, ..., error=str(e))
OcrExcept ==
  /\ ocr_pc = "except"
  /\ ocr_response' = failure_response(pending.error)
  /\ ocr_pc' = "returned"
  /\ UNCHANGED <<extract_vars, similarity_vars, app_vars, api_vars, ocr_request,
                 created, temp_path, files, extract_call, pending, ocr_served>>

\* the response leaves the handler
OcrReturn ==
  /\ ocr_pc = "returned"
  /\ ocr_served' = ocr_served + 1
  /\ ocr_pc' = "idle"
  /\ UNCHANGED <<extract_vars, similarity_vars, app_vars, api_vars, ocr_request,
                 created, temp_path, files, extract_call, pending, ocr_response>>

NextOcr ==
  \/ OcrReceive
  \/ OcrCreateTempFile
  \/ OcrWriteImage
  \/ OcrExtract
  \/ OcrCleanup
  \/ OcrExcept
  \/ OcrReturn

SpecOcr == InitOcr /\ [][NextOcr]_vars

\* ------------------------------------------------------------ properties

\* extract_remaining_fields has run, at least in part
StagesRun == "picked" \in DOMAIN rem

\* the number of tokens of the input: zip stops at the shortest list
InputLen ==
  Min2(Len(GetList(ocr_data, "rec_texts")),
       Min2(Len(GetList(ocr_data, "rec_scores")), Len(GetList(ocr_data, "rec_polys"))))
\* the i-th token of the input
InputToken(i) ==
  Token(ocr_data.rec_texts[i], ocr_data.rec_scores[i], ocr_data.rec_polys[i])

\* C1: whenever extract proceeds, the confidence it returns is exactly the
\* number of fields of the returned data map that are not None, divided by the
\* number of fields of that map.
C1_ConfidenceIsFilledFraction ==
  (pc = "done" /\ outcome.success) =>
    outcome.confidence[1] * Cardinality(DOMAIN outcome.data)
      = filled_fields(outcome.data) * outcome.confidence[2]

\* C2: the data map of every outcome has exactly the declared field names of
\* the layout as its keys; the outcome of a failed quality gate has every
\* declared field present and None, and a confidence of 0.
C2_DataHasDeclaredFields ==
  pc = "done" =>
    /\ DOMAIN outcome.data = Range(data_fields(layout))
    /\ ~outcome.success =>
         /\ \A f \in DOMAIN outcome.data : outcome.data[f] = None
         /\ "confidence" \in DOMAIN outcome
         /\ outcome.confidence[1] = 0

\* C3: within one call no token supplies two values: the positions the anchor
\* stage, the authority heuristic and the positional stage took their values
\* from are pairwise distinct.
C3_NoTokenConsumedTwice ==
  StagesRun =>
    \A f, g \in DOMAIN rem.picked :
      \A i \in DOMAIN rem.picked[f] : \A j \in DOMAIN rem.picked[g] :
        (f # g \/ i # j) => rem.picked[f][i] # rem.picked[g][j]

\* C4: no field filled by the anchor stage, the authority heuristic or the
\* positional stage holds the text of a token that is_likely_label accepts.
C4_NoLabelAsValue ==
  StagesRun =>
    \A f \in DOMAIN rem.picked : \A k \in DOMAIN rem.picked[f] :
      /\ rem.results[f] # None
      /\ ~IsLabel(layout, remaining_data[rem.picked[f][k]].text)
      /\ ~IsLabel(layout, rem.results[f])

\* a label lies to the right of or below the anchor of "nom", nearer than
\* the text the anchor stage gave to "nom"
C4_LabelNearerThanValue ==
  /\ pc = "anchored"
  /\ layout = "18F"
  /\ rem.picked["nom"] # <<>>
  /\ \E i \in DOMAIN remaining_data :
       /\ i # best_anchor(detected["nom"])[1]
       /\ IsLabel(layout, remaining_data[i].text)
       /\ is_right(calculate_center(remaining_data[best_anchor(detected["nom"])[1]].polygon),
                   calculate_center(remaining_data[i].polygon))
       /\ Dist2(calculate_center(remaining_data[best_anchor(detected["nom"])[1]].polygon),
                calculate_center(remaining_data[i].polygon))
            < Dist2(calculate_center(remaining_data[best_anchor(detected["nom"])[1]].polygon),
                    calculate_center(remaining_data[rem.picked["nom"][1]].polygon))

\* C5: extract never raises, whatever the input dictionary.
C5_ExtractNeverRaises == pc # "raised"

\* C6: a token whose polygon gives no centre is skipped: a call whose
\* remaining tokens include one is never left by an exception.
C6_MalformedTokenSkipped ==
  (\E i \in DOMAIN remaining_data : center_raises(remaining_data[i].polygon))
    => pc # "raised"

\* the three conditions of the quality gate on the scores of the input
GateConditions ==
  /\ Cardinality({i \in DOMAIN GetList(ocr_data, "rec_scores") :
                    ocr_data.rec_scores[i] > 0})
       >= (IF layout = "18F" THEN 8 ELSE 5)
  /\ 100 * SumSeq(ScoresAbove(GetList(ocr_data, "rec_scores"), 0))
       >= 50 * Len(ScoresAbove(GetList(ocr_data, "rec_scores"), 0))
  /\ Cardinality({i \in DOMAIN GetList(ocr_data, "rec_scores") :
                    ocr_data.rec_scores[i] > 70})
       >= (IF layout = "18F" THEN 5 ELSE 3)
NoValidScore == \A i \in DOMAIN GetList(ocr_data, "rec_scores") : ocr_data.rec_scores[i] <= 0

InsertAt(s, p, x) == SubSeq(s, 1, p) \o <<x>> \o SubSeq(s, p + 1, Len(s))
\* the input with one token of confidence 0 added after its first p tokens
WithZeroToken(d, p) ==
  [rec_texts |-> InsertAt(d.rec_texts, p, <<"E","K","O">>),
   rec_scores |-> InsertAt(d.rec_scores, p, 0),
   rec_polys |-> InsertAt(d.rec_polys, p, Box(100, 200))]

\* the gate's answer after is no worse than before, with the same avg_score
GateKept(before, after) ==
  /\ before.proceed => after.proceed
  /\ after.avg[1] * before.avg[2] = before.avg[1] * after.avg[2]

\* C8: for every token list, adding one token of confidence 0 at any position
\* never turns proceed from true to false and never changes avg_score.
C8_ZeroTokenMonotonic ==
  (pc = "assessed" /\ DOMAIN ocr_data = Keys) =>
    \A p \in 0..Len(ocr_data.rec_scores) :
      GateKept([proceed |-> can_proceed, avg |-> quality_score],
               assess_quality(layout, WithZeroToken(ocr_data, p)))

\* a token list that passes the gate, and passes it with a token of
\* confidence 0 added in its middle
C8_PassingListWithZeroToken ==
  /\ pc = "assessed"
  /\ DOMAIN ocr_data = Keys
  /\ Len(ocr_data.rec_scores) >= 2
  /\ can_proceed
  /\ assess_quality(layout, WithZeroToken(ocr_data, 1)).proceed
  /\ assess_quality(layout, WithZeroToken(ocr_data, 1)).avg[1] > 0

\* C9: preprocess is idempotent: run on the texts, scores and polygons of its
\* own output it returns that output.
C9_PreprocessIdempotent ==
  pc = "preprocessed" =>
    preprocess(layout,
               [i \in DOMAIN processed_data |-> processed_data[i].text],
               [i \in DOMAIN processed_data |-> processed_data[i].score],
               [i \in DOMAIN processed_data |-> processed_data[i].polygon])
      = processed_data

\* preprocess dropped a token of the input and trimmed the text of another
C9_FilteredAndTrimmed ==
  /\ pc = "preprocessed"
  /\ processed_data # <<>>
  /\ Len(processed_data) < InputLen
  /\ \E i \in 1..InputLen :
       /\ ocr_data.rec_texts[i] # Strip(ocr_data.rec_texts[i])
       /\ \E k \in DOMAIN processed_data :
            processed_data[k].text = Strip(ocr_data.rec_texts[i])

\* the tokens out[i..] are, in this order, among the tokens of the input from
\* position j on, each with its text trimmed and its own score and polygon
RECURSIVE SubsequenceFrom(_, _, _)
SubsequenceFrom(out, i, j) ==
  IF i > Len(out) THEN TRUE
  ELSE IF j > InputLen THEN FALSE
  ELSE IF out[i] = Token(Strip(InputToken(j).text), InputToken(j).score,
                         InputToken(j).polygon)
  THEN SubsequenceFrom(out, i + 1, j + 1)
  ELSE SubsequenceFrom(out, i, j + 1)

\* C10: the output of preprocess is an order-preserving subsequence of its
\* input: every token of the output is a token of the input with its own score
\* and polygon and its text trimmed, in the order of the input, none twice.
C10_PreprocessSubsequence ==
  pc = "preprocessed" => SubsequenceFrom(processed_data, 1, 1)

\* preprocess kept two tokens from either side of one it dropped
C10_KeptAroundDropped ==
  /\ pc = "preprocessed"
  /\ Len(processed_data) >= 2
  /\ \E i, j, k \in 1..InputLen :
       /\ i < j /\ j < k
       /\ preprocess_one(layout, InputToken(j).text, InputToken(j).score,
                         InputToken(j).polygon) = <<>>
       /\ preprocess_one(layout, InputToken(i).text, InputToken(i).score,
                         InputToken(i).polygon) # <<>>
       /\ preprocess_one(layout, InputToken(k).text, InputToken(k).score,
                         InputToken(k).polygon) # <<>>
       /\ InputToken(i) # InputToken(k)

\* C11: similarity_score(a, a) = 1.0 for every non-empty string a.
C11_SelfSimilarityIsOne ==
  (pc = "returned" /\ str1_arg = str2_arg /\ str1_arg # <<>>) =>
    (final_score[2] > 0 /\ final_score[1] = final_score[2])

\* a string with a lowercase letter and a blank was compared with itself
C11_SelfComparedMixedCase ==
  /\ pc = "returned"
  /\ str1_arg = str2_arg
  /\ Len(str1_arg) >= 3
  /\ {"b", " "} \subseteq Range(str1_arg)
  /\ final_score[1] = final_score[2]

\* C12: for every pair of strings, empty ones and ones of unequal length
\* included, similarity_score returns a value in [0, 1].
C12_SimilarityInUnitInterval ==
  pc = "returned" =>
    /\ final_score[2] > 0
    /\ final_score[1] >= 0
    /\ final_score[1] <= final_score[2]

\* two strings of unequal length with a common prefix got a score strictly
\* between 0 and 1
C12_PrefixBonusBelowOne ==
  /\ pc = "returned"
  /\ Len(str1_arg) # Len(str2_arg)
  /\ PrefixMatch(Strip(Upper(str1_arg)), Strip(Upper(str2_arg)), 1) > 0
  /\ final_score[1] > 0
  /\ final_score[1] < final_score[2]

\* the value a field has at this point of the call: in the dictionary returned,
\* else in the results of extract_remaining_fields, else in those of
\* extract_fixed_format_fields
FieldValue(f) ==
  IF "data" \in DOMAIN outcome /\ f \in DOMAIN outcome.data THEN outcome.data[f]
  ELSE IF StagesRun /\ f \in DOMAIN rem.results THEN rem.results[f]
  ELSE IF "results" \in DOMAIN fixed_fields /\ f \in DOMAIN fixed_fields.results
  THEN fixed_fields.results[f]
  ELSE None
\* what the anchor loop alone leaves in results
AfterAnchors ==
  anchor_stage(layout, remaining_data, detected,
               remaining_init(layout, fixed_fields.results)).results

\* C13: once a stage has given a field a value, no later stage of the same call
\* changes it, and no field is assigned twice by the anchor loop, the authority
\* heuristic and the positional stage.
C13_FilledFieldKept ==
  [][/\ \A f \in Range(data_fields(layout)) \cup fixed_fields_of(layout) :
          FieldValue(f) # None => FieldValue(f)' = FieldValue(f)
     /\ StagesRun' => \A f \in DOMAIN rem'.picked : Len(rem'.picked[f]) <= 1]_vars

\* on the 2025 back the anchor loop filled pere and not mere, and the
\* positional stage then gave a text to mere
C13_LaterStageFilledAnother ==
  /\ pc = "fallback"
  /\ layout = "25B"
  /\ AfterAnchors["pere"] # None
  /\ AfterAnchors["mere"] = None
  /\ rem.results["mere"] # None

\* C14: on a back layout, when an anchor of "pere" is detected and every other
\* token handed to the later stages is a label, the returned pere is None.
C14_PereAbsentWhenOnlyLabels ==
  ( /\ layout \in {"18B", "25B"}
    /\ pc = "done"
    /\ StagesRun
    /\ \E a \in Range(detected["pere"]) :
         \A i \in DOMAIN remaining_data :
           i # a[1] => IsLabel(layout, remaining_data[i].text) )
  => outcome.data["pere"] = None

\* the four fragments of the scenario of the 2018 front: the label
\* 'NOM/SURNAME' (0.95), 'OROKO' (0.92) on the same line to its right,
\* '09.05.1991' (0.90) and 'F' (0.88)
NameLabelText == <<"N","O","M","/","S","U","R","N","A","M","E">>
NameText == <<"O","R","O","K","O">>
BirthText == <<"0","9",".","0","5",".","1","9","9","1">>
ScenarioToken(i, text, score) ==
  InputToken(i).text = text /\ InputToken(i).score = score
ScenarioPositions ==
  {p \in {i \in 1..InputLen : ScenarioToken(i, NameLabelText, 95)}
          \X {i \in 1..InputLen : ScenarioToken(i, NameText, 92)}
          \X {i \in 1..InputLen : ScenarioToken(i, BirthText, 90)}
          \X {i \in 1..InputLen : ScenarioToken(i, <<"F">>, 88)} :
     /\ InputToken(p[1]).polygon # <<>> /\ InputToken(p[2]).polygon # <<>>
     /\ DeltaX(calculate_center(InputToken(p[1]).polygon),
               calculate_center(InputToken(p[2]).polygon)) > 0
     /\ DeltaY(calculate_center(InputToken(p[1]).polygon),
               calculate_center(InputToken(p[2]).polygon)) = 0}
\* the outcome of the scenario: the date and the sex from the fixed-format pass,
\* the name from the anchor loop
ScenarioOutcome ==
  /\ pc = "done"
  /\ fixed_fields.results["date_naissance"] = BirthText
  /\ fixed_fields.results["sexe"] = <<"F">>
  /\ AfterAnchors["nom"] = NameText
  /\ outcome.data["date_naissance"] = BirthText
  /\ outcome.data["sexe"] = <<"F">>
  /\ outcome.data["nom"] = NameText
\* a text that matches one of the fixed-format patterns of the layout
fixed_shape(L, t) ==
  IF L = "18F" THEN date_pattern(L, t) \/ t \in {<<"M">>, <<"F">>} \/ taille_pattern18F(t)
  ELSE IF L = "18B"
  THEN date_pattern(L, t) \/ id_unique_pattern(t) \/ numero_pattern(t) \/ poste_pattern(t)
  ELSE date_pattern(L, t) \/ taille_pattern25B(t) \/ numero_cni_pattern(t)
\* a token that is a label and nothing else: no anchor of a field, no
\* fixed-format shape
PlainLabel(L, text) ==
  /\ IsLabel(L, Strip(text))
  /\ \A f \in Range(anchor_fields(L)) : AnchorScore(L, f, Strip(text)) = None
  /\ ~fixed_shape(L, Strip(text))

\* C15 as stated: on the 2018 front, when the gate passes and the input holds
\* the four fragments of the scenario, the outcome has the birth date and the
\* sex from the fixed-format pass and nom = 'OROKO' from the anchor loop.
C15_ScenarioAmongAnyTokens ==
  (layout = "18F" /\ pc \in {"done", "raised"} /\ can_proceed /\ ScenarioPositions # {})
    => ScenarioOutcome

\* C15 (amended): the same when every other token of the input is a label that
\* matches no anchor and no fixed-format pattern, such as the header line.
C15_ScenarioAmongLabels ==
  (/\ layout = "18F" /\ pc \in {"done", "raised"} /\ can_proceed
   /\ \E p \in ScenarioPositions :
        \A i \in 1..InputLen :
          i \notin Range(p) => PlainLabel(layout, InputToken(i).text))
    => ScenarioOutcome

\* the scenario has run to its end among header lines
C15_ScenarioExtracted ==
  /\ layout = "18F" /\ pc = "done" /\ can_proceed
  /\ \E p \in ScenarioPositions :
       /\ InputLen > 4
       /\ \A i \in 1..InputLen :
            i \notin Range(p) => PlainLabel(layout, InputToken(i).text)
  /\ ScenarioOutcome

\* the texts of processed_data that match date_pattern, in token order
RECURSIVE dates_from(_)
dates_from(i) ==
  IF i > Len(processed_data) THEN <<>>
  ELSE (IF date_pattern(layout, processed_data[i].text)
        THEN <<processed_data[i].text>> ELSE <<>>) \o dates_from(i + 1)
DateTexts == dates_from(1)
\* the year of a date text: its last four characters as a number
DigitValue(c) == CHOOSE n \in 0..9 : <<"0","1","2","3","4","5","6","7","8","9">>[n + 1] = c
Year(t) ==
  1000 * DigitValue(t[Len(t) - 3]) + 100 * DigitValue(t[Len(t) - 2])
    + 10 * DigitValue(t[Len(t) - 1]) + DigitValue(t[Len(t)])
\* the sole or first date field of a layout: the birth date on the 2018 front,
\* the issue date on the backs; only the 2018 back has an expiry date
first_date_field(L) == IF L = "18F" THEN "date_naissance" ELSE "date_delivrance"
\* of two dates, the one the year rule makes the expiry date (year > 2020) or
\* leaves out of the birth date (the other one has a year < 2010); the second
\* in token order when the rule does not tell them apart
LaterDateByYear(L, d1, d2) ==
  IF Year(d1) > 2020 /\ Year(d2) <= 2020 THEN d1
  ELSE IF L = "18F" /\ Year(d2) < 2010 /\ Year(d1) >= 2010 THEN d1
  ELSE d2
EarlierDateByYear(L, d1, d2) == IF LaterDateByYear(L, d1, d2) = d1 THEN d2 ELSE d1

C18_FixedShapesLeaveThePool ==
  /\ \A i \in DOMAIN remaining_data : ~fixed_shape(layout, remaining_data[i].text)
  /\ StagesRun =>
       \A f \in DOMAIN rem.results :
         rem.results[f] # None => ~fixed_shape(layout, rem.results[f])

\* C19: on every layout, no token that preprocess returns has a confidence
\* below 0.3, an empty trimmed text, a text of at most two characters with a
\* character outside ASCII, or the shape of a machine-readable line.
C19_NoNoiseAfterPreprocess ==
  \A k \in DOMAIN processed_data :
    LET t == processed_data[k].text
    IN /\ processed_data[k].score >= LowScore
       /\ Strip(t) # <<>>
       /\ ~(Len(t) <= 2 /\ \E i \in DOMAIN t : t[i] \in NonAscii)
       /\ ~(StartsWith(t, <<"I","<">>) \/ Contains(t, <<"<","<","<">>))

\* similarity_score(text.upper(), anchor) for every text of the vocabulary and
\* every synonym of every field, evaluated once
synonym_memo ==
  [L \in Layouts |-> [t \in vocabulary(L) |-> [f \in Range(anchor_fields(L)) |->
     [k \in DOMAIN anchors(L)[f] |-> similarity_score(Upper(t), anchors(L)[f][k])]]]]
SynonymScore(L, f, k, text) ==
  IF text \in vocabulary(L) THEN synonym_memo[L][text][f][k]
  ELSE similarity_score(Upper(text), anchors(L)[f][k])
\* the synonyms of field f that the text reaches the threshold with
reaching_memo ==
  [L \in Layouts |-> [t \in vocabulary(L) |-> [f \in Range(anchor_fields(L)) |->
     {k \in DOMAIN anchors(L)[f] :
        FracGE(synonym_memo[L][t][f][k], similarity_threshold)}]]]
Reaching(L, f, text) ==
  IF text \in vocabulary(L) THEN reaching_memo[L][text][f]
  ELSE {k \in DOMAIN anchors(L)[f] :
          FracGE(SynonymScore(L, f, k, text), similarity_threshold)}
\* the entries of detected[f] for the token at position i
EntriesOf(f, i) == {e \in DOMAIN detected[f] : detected[f][e][1] = i}
\* the entries of detected[f] for a token are what its reaching synonyms say
EntriesMatch(f, text, reach, entries) ==
  /\ (entries # {}) <=> (reach # {})
  /\ Cardinality(entries) <= 1
  /\ \A e \in entries :
       /\ detected[f][e][2] = text
       /\ detected[f][e][3] = SynonymScore(layout, f, SetMin(reach), text)

\* C20: detect_anchors records a token for a field exactly when its similarity
\* to some synonym of the field is >= 0.70, at most once for the field, with
\* the token's text and the score of the first synonym, in the declared order,
\* that reaches the threshold.
C20_AnchorsRecorded ==
  pc = "detected" =>
    \A f \in Range(anchor_fields(layout)) :
      /\ \A e \in DOMAIN detected[f] : detected[f][e][1] \in DOMAIN remaining_data
      /\ \A i \in DOMAIN remaining_data :
           EntriesMatch(f, remaining_data[i].text,
                        Reaching(layout, f, remaining_data[i].text), EntriesOf(f, i))

\* a token is recorded for two fields, and a token reaches the threshold with
\* a synonym and reaches a higher score with a later one
C20_TwoFieldsAndLaterBetterSynonym ==
  /\ pc = "detected"
  /\ \E i \in DOMAIN remaining_data :
       \E f, g \in Range(anchor_fields(layout)) :
         f # g /\ EntriesOf(f, i) # {} /\ EntriesOf(g, i) # {}
  /\ \E i \in DOMAIN remaining_data :
       \E f \in Range(anchor_fields(layout)) :
         \E k \in Reaching(layout, f, remaining_data[i].text) :
           /\ k > SetMin(Reaching(layout, f, remaining_data[i].text))
           /\ FracGT(SynonymScore(layout, f, k, remaining_data[i].text),
                     SynonymScore(layout, f,
                                  SetMin(Reaching(layout, f, remaining_data[i].text)),
                                  remaining_data[i].text))

\* ------------------------------------------------------------------ C21

\* C21: for each field extract_by_proximity is called for, the anchor passed
\* is the candidate of the field with the maximum recorded similarity score,
\* the first such candidate in token order when several share the maximum.
C21_BestAnchorPassed ==
  StagesRun =>
    \A f \in Range(anchor_loop_fields(layout)) :
      rem.anchor_idx[f] # 0 =>
        \E e \in DOMAIN detected[f] :
          /\ detected[f][e][1] = rem.anchor_idx[f]
          /\ \A j \in DOMAIN detected[f] :
               /\ ~FracGT(detected[f][j][3], detected[f][e][3])
               /\ detected[f][j][1] < detected[f][e][1]
                    => FracGT(detected[f][e][3], detected[f][j][3])
\* a field resolved through its anchor, whose first candidate has a lower
\* score than two later candidates that share the maximum
C21_TiedMaximumAfterLowerCandidate ==
  /\ pc = "anchored"
  /\ \E f \in Range(anchor_loop_fields(layout)) :
       /\ rem.picked[f] # <<>>
       /\ \E e1, e2, e3 \in DOMAIN detected[f] :
            /\ e1 < e2 /\ e2 < e3
            /\ FracGT(detected[f][e2][3], detected[f][e1][3])
            /\ detected[f][e3][3] = detected[f][e2][3]
            /\ rem.anchor_idx[f] = detected[f][e2][1]

\* ------------------------------------------------------------------ C22

\* the five conditions, for the word lists of the layout: an ignore word; a
\* '/' together with a bilingual-marker keyword; a similarity of at least 0.75
\* to a known label; several words, half of them label keywords; one word
\* that is a label keyword
LabelCondition(L, text, text_upper, words) ==
  \/ text_upper \in ignore_words(L)
  \/ /\ "/" \in Range(text)
     /\ \E word \in slash_words(L) : Contains(text_upper, word)
  \/ \E label \in all_labels(L) :
       FracGE(similarity_score(text_upper, label), LabelSimilarity)
  \/ /\ Len(words) > 1
     /\ 2 * Cardinality({i \in DOMAIN words : words[i] \in label_words(L)})
          >= Len(words)
  \/ Len(words) = 1 /\ text_upper \in label_words(L)
condition_memo ==
  [L \in Layouts |-> [t \in vocabulary(L) |->
     LabelCondition(L, t, Upper(t), Split(Upper(t)))]]

\* C22: in every layout, is_likely_label returns true for a token whenever at
\* least one of the five conditions holds.
C22_LabelWheneverACondition ==
  StagesRun =>
    \A i \in DOMAIN remaining_data :
      condition_memo[layout][remaining_data[i].text]
        => IsLabel(layout, remaining_data[i].text)

\* ------------------------------------------------------------------ C23

\* the centre of the token at position i of the pool
CentreOf(i) == calculate_center(remaining_data[i].polygon)
\* the tokens that are not the anchor, are not classified as labels, and have
\* their centre strictly to the right of or strictly below the anchor's
Eligible(anchor) ==
  {i \in DOMAIN remaining_data :
     /\ i # anchor
     /\ ~IsLabel(layout, remaining_data[i].text)
     /\ \/ CentreOf(i)[1] * CentreOf(anchor)[3] > CentreOf(anchor)[1] * CentreOf(i)[3]
        \/ CentreOf(i)[2] * CentreOf(anchor)[3] > CentreOf(anchor)[2] * CentreOf(i)[3]}
\* token i scores at least as much as token j for the anchor
ScoresAtLeast(anchor, i, j) == ~proximity_gt(remaining_data, CentreOf(anchor), j, i)
\* ret is what the claim says the call for this anchor returns
ReturnsAsClaimed(anchor, eligible, ret) ==
  IF eligible = {} THEN ret = <<None, 0>>
  ELSE /\ ret[2] \in eligible
       /\ ret[1] = remaining_data[ret[2]].text
       /\ \A j \in eligible :
            /\ ScoresAtLeast(anchor, ret[2], j)
            /\ j < ret[2] => ~ScoresAtLeast(anchor, j, ret[2])

\* C23: a call of extract_by_proximity that returns, returns the text of the
\* first token, in pool order, that maximises confidence * 1/(1 + distance/100)
\* among the tokens that are not the anchor, are not classified as labels and
\* lie strictly to the right of or strictly below the anchor's centre; it
\* returns None when there is no such token.
C23_ProximityReturnsFirstBest ==
  StagesRun =>
    \A f \in Range(anchor_loop_fields(layout)) :
      rem.returned[f] # <<>> =>
        ReturnsAsClaimed(rem.anchor_idx[f], Eligible(rem.anchor_idx[f]), rem.returned[f])
\* a call returned a token that an eligible token before it scores less than
\* and an eligible token after it scores as much as
C23_BestAfterLowerBeforeEqual ==
  /\ pc = "anchored"
  /\ \E f \in Range(anchor_loop_fields(layout)) :
       /\ rem.returned[f] # <<>>
       /\ rem.returned[f][2] # 0
       /\ \E i, j \in Eligible(rem.anchor_idx[f]) :
            /\ i < rem.returned[f][2] /\ rem.returned[f][2] < j
            /\ ScoresAtLeast(rem.anchor_idx[f], j, rem.returned[f][2])

\* ------------------------------------------------------------------ C24

\* the fields of the layout the stages after the fixed formats resolve, in
\* their declared order
declared_order(L) == anchor_loop_fields(L)
\* the fields of fs without a value in st, in order
MissingIn(st, fs) == SelectSeq(fs, LAMBDA f : st.results[f] = None)
\* the positions given to a field so far
Consumed(st) == UNION {Range(st.picked[f]) : f \in DOMAIN st.picked}
\* the texts given to a field so far
GivenTexts(st) == {st.results[f] : f \in DOMAIN st.results} \ {None}
\* the tokens of the pool that are not labels, without the consumed ones
Unconsumed(st) ==
  {i \in DOMAIN remaining_data :
     i \notin Consumed(st) /\ ~IsLabel(layout, remaining_data[i].text)}
\* the same without every token that carries a text given to a field
Ungiven(st) ==
  {i \in DOMAIN remaining_data :
     /\ remaining_data[i].text \notin GivenTexts(st)
     /\ ~IsLabel(layout, remaining_data[i].text)}
\* the vertical centre of i is above that of j, or level with it
Above(i, j) == ~y_le(CentreOf(j), CentreOf(i))
Level(i, j) == y_le(CentreOf(i), CentreOf(j)) /\ y_le(CentreOf(j), CentreOf(i))
\* the tokens of pool that can stand at place k when pool is sorted by
\* vertical centre ascending
AtPlace(pool, k) ==
  {i \in pool :
     /\ Cardinality({j \in pool : Above(j, i)}) < k
     /\ k <= Cardinality({j \in pool : Above(j, i) \/ Level(j, i)})}
\* after the stage, the k-th field of missing holds the k-th token of the
\* sorted pool, for every k, while tokens remain
AssignedInOrder(missing, pool, after) ==
  \A k \in DOMAIN missing :
    IF k <= Cardinality(pool)
    THEN \E i \in AtPlace(pool, k) : after.results[missing[k]] = remaining_data[i].text
    ELSE after.results[missing[k]] = None
\* a completed step of the positional stage
FallbackDone == pc \in {"anchored", "authority"} /\ pc' = "fallback"

\* C24 (as claimed): the positional stage gives the tokens that are neither
\* consumed nor labels, sorted by vertical centre, to the still-missing fields
\* in the declared field order, for every missing field while tokens remain.
C24_FallbackFillsEveryMissingField ==
  [][FallbackDone =>
       AssignedInOrder(MissingIn(rem, declared_order(layout)), Unconsumed(rem), rem')]_vars

\* C24 (amended): on the 2018 front, the positional stage gives the tokens
\* that are not labels and whose text no field holds yet, sorted by vertical
\* centre, to those of nom, prenom and lieu_naissance that are still
\* missing, in this order, while tokens remain; it leaves profession as it is.
C24_FallbackFillsNameFields18F ==
  [][(FallbackDone /\ layout = "18F") =>
       /\ AssignedInOrder(MissingIn(rem, <<"nom", "prenom", "lieu_naissance">>),
                          Ungiven(rem), rem')
       /\ rem'.results["profession"] = rem.results["profession"]]_vars
\* the 2018 front, the name found by its anchor, and the two other fields
\* given tokens that stand in the pool in the other order
C24_SortedAfterAnchor ==
  /\ layout = "18F" /\ pc = "fallback"
  /\ Len(rem.picked["nom"]) = 1 /\ rem.returned["nom"] # <<>>
  /\ rem.returned["nom"][2] = rem.picked["nom"][1]
  /\ Len(rem.picked["prenom"]) = 1 /\ rem.returned["prenom"] = <<>>
  /\ Len(rem.picked["lieu_naissance"]) = 1
  /\ rem.picked["lieu_naissance"][1] < rem.picked["prenom"][1]

\* ------------------------------------------------------------------ C25

\* a digit, the separator ',' and two digits
CanonicalHeight(t) ==
  Len(t) = 4 /\ t[1] \in Digits /\ t[2] = "," /\ t[3] \in Digits /\ t[4] \in Digits
\* the digits of a text, in order
DigitsOf(t) == SelectSeq(t, LAMBDA c : c \in Digits)

\* C25: whenever a token is accepted as the height, the value stored in
\* taille is a digit, ',' and two digits, whatever the accepted spelling, on
\* the 2018 front and on the 2025 back.
C25_HeightStoredCanonical ==
  (layout \in {"18F", "25B"} /\ "results" \in DOMAIN fixed_fields
     /\ fixed_fields.results["taille"] # None) =>
    /\ CanonicalHeight(fixed_fields.results["taille"])
    /\ \E i \in DOMAIN processed_data :
         DigitsOf(processed_data[i].text) = DigitsOf(fixed_fields.results["taille"])

\* ------------------------------------------------------------------ C27

\* the positions of the pool detect_anchors recorded for some field
AnchorCandidates ==
  {detected[g][e][1] : <<g, e>> \in
     UNION {{<<g, e>> : e \in DOMAIN detected[g]} : g \in DOMAIN detected}}

\* C27: a token recorded by detect_anchors as a candidate anchor of some field
\* is never given to a field as its value, neither by extract_by_proximity
\* nor by the positional stage.
C27_AnchorCandidateNeverValue ==
  StagesRun =>
    \A f \in DOMAIN rem.picked :
      \A k \in DOMAIN rem.picked[f] : rem.picked[f][k] \notin AnchorCandidates

\* ------------------------------------------------------------------ C26

\* C26: the IDCardDataExtractor is constructed at most once per process and
\* every call of init_extractor returns that same instance, also when the
\* requests are handled by concurrent threads.
C26_ExtractorConstructedOnce ==
  /\ instances <= 1
  /\ \A t1, t2 \in Threads :
       (current_extractor[t1] # NoExtractor /\ current_extractor[t2] # NoExtractor)
         => current_extractor[t1] = current_extractor[t2]

\* ------------------------------------------------------------------ C28

\* the failure is one the claim allows a retry after: an RpcError with code
\* UNAVAILABLE or DEADLINE_EXCEEDED, or another exception whose message
\* contains 'connection' or 'timeout' (in any case of the letters)
RetryableFailure(e) ==
  \/ e.kind = "RpcError" /\ e.code \in {"UNAVAILABLE", "DEADLINE_EXCEEDED"}
  \/ /\ e.kind = "Exception"
     /\ \E w \in {<<"c","o","n","n","e","c","t","i","o","n">>, <<"t","i","m","e","o","u","t">>} :
          \E i \in 1..Len(e.message) :
            i + Len(w) - 1 <= Len(e.message)
              /\ Lower(SubSeq(e.message, i, i + Len(w) - 1)) = w
\* a step that starts a new attempt after a failed one
RetryStep == api_pc = "except" /\ api_pc' = "attempt"
\* call_grpc_service has returned after a failed attempt
ReturnedAfterFailure ==
  api_pc \in {"result", "answered"} /\ attempts > 0 /\ attempt.kind # "response"

\* C28: call_grpc_service ends with a result dictionary after at most 4
\* attempts; it retries only after a retryable failure and only while
\* retry_count < 3; any other failure, and the failure of the fourth
\* attempt, returns success = false with final_failure set.
C28_GrpcEndsWithinFourAttempts ==
  /\ [](attempts <= 4 /\ (api_pc = "result" => result.retry_count = attempts - 1))
  /\ [][RetryStep => (RetryableFailure(attempt) /\ retry_count < 3)]_vars
  /\ [](ReturnedAfterFailure =>
          /\ result.success = FALSE /\ result.final_failure
          /\ (~RetryableFailure(attempt) \/ attempts = 4))
  /\ [](api_pc = "attempt" => <>(api_pc = "result"))
\* the fourth attempt failed with a retryable failure and the call returned
C28_FourthAttemptFailed ==
  /\ api_pc = "result" /\ attempts = 4
  /\ RetryableFailure(attempt)
  /\ slept = <<5, 10, 20>>
  /\ result = [success |-> FALSE, retry_count |-> 3, final_failure |-> TRUE]

\* C30: after any sequence of completed /api/extract requests,
\* request_counter = success_counter + error_counter, and the requests whose
\* response is an error response (success = false, status 4xx or 5xx) are
\* counted in error_counter and not in success_counter.
ErrorResponses ==
  {i \in DOMAIN answered : ~answered[i].success /\ answered[i].status >= 400}
C30_ErrorResponsesCountedAsErrors ==
  api_pc = "idle" =>
    /\ request_counter = success_counter + error_counter
    /\ error_counter = Cardinality(ErrorResponses)
    /\ success_counter = Len(answered) - Cardinality(ErrorResponses)

\* C29: when the response of an ExtractData request is returned, the
\* temporary image file created for the request no longer exists, whether the
\* extraction succeeded or raised; after an exception the response is an
\* OCRResponse with success = false and the text of the error.
C29_TempFileGoneAtResponse ==
  ocr_pc = "returned" =>
    /\ created # NoFile => created \notin files
    /\ pending.kind = "raise" => ocr_response = failure_response(pending.error)
    /\ pending.kind = "return" => ocr_response.success

====
